---- MODULE Spec2Model ----
(***************************************************************************)
(* Nepal Kanun Patrika scraper: year routing, the five era extractors of   *)
(* Kanun_Patrika_Scrapper.py, the standalone 2061-2051 extractor, the      *)
(* citation/holding segmenter and the SQLite persistence.                  *)
(*                                                                         *)
(* A block text is a sequence of words; the single space that get_text     *)
(* (separator=' ') puts between words is the word boundary.  Devanagari    *)
(* keywords are written in Latin transliteration:                          *)
(*   ijlas = इजलास, adalat = अदालत, mananiya = माननीय,                      *)
(*   nyayadhish = न्यायाधीश, nivedak = निवेदक, wadi = वादी,                  *)
(*   pratiwadi = प्रतिवादी, vipakshi = विपक्षी, vipaksh = विपक्ष,             *)
(*   viruddha = विरुद्ध, vishaya = विषय, mudda = मुद्दा, faisala = फैसला,     *)
(*   faisalah = फैसलाः, adesh = आदेश, nirnaya = निर्णय,                      *)
(*   nirnaya_nam = "निर्णय नं.", miti = मिति, (prakaran = "(प्रकरण नं",       *)
(*   section = "§".                                                        *)
(***************************************************************************)
EXTENDS Integers, Sequences, FiniteSets, TLC

\* ------------------------------------------------------------------------
\* Bounds of the model
\* ------------------------------------------------------------------------
MaxLen == 3

\* the most case links on a page of search results
MaxUrls == 2

\* ------------------------------------------------------------------------
\* Extractors
\* ------------------------------------------------------------------------
M2015 == "scrape_case_details_2015_to_2044"
M2045 == "scrape_case_details_2045_to_2050"
M2051 == "scrape_case_details_2051_to_2061"
M2062 == "scrape_case_details_2062_to_2072"
M2073 == "scrape_case_details_2073_to_2080_and_beyond"
S2061 == "scrape_case_details"
ValueError == "ValueError"

EraMethods == {M2015, M2045, M2051, M2062, M2073}
Methods == EraMethods \cup {S2061}

\* ------------------------------------------------------------------------
\* Text: substring, equality and prefix tests against keyword lists
\* ------------------------------------------------------------------------
\* <<kw, w>>: keyword kw is a proper substring of the word w
Substr == { <<"wadi", "pratiwadi">>, <<"vipaksh", "vipakshi">>,
            <<"nirnaya", "nirnaya_nam">>, <<"faisala", "faisalah">> }

\* <<kw, w>>: keyword kw is a proper prefix of the word w
Prefix == { <<"vipaksh", "vipakshi">>, <<"nirnaya", "nirnaya_nam">>,
            <<"faisala", "faisalah">> }

\* any(kw in text for kw in kws)
Contains(kws, text) ==
    \E i \in DOMAIN text : \E kw \in kws :
        text[i] = kw \/ <<kw, text[i]>> \in Substr

\* any(kw == text for kw in kws)
Equals(kws, text) == Len(text) = 1 /\ text[1] \in kws

\* any(text.startswith(kw) for kw in kws)
StartsWith(kws, text) ==
    Len(text) > 0 /\ \E kw \in kws :
        text[1] = kw \/ <<kw, text[1]>> \in Prefix

\* a + " " + b ; a trailing space is kept as an empty last word
Join(a, b) == IF b = <<>> THEN a \o <<"">> ELSE a \o b

KEYWORDS_2(m) == IF m \in {M2015, S2061} THEN {"(prakaran"}
                 ELSE {"(prakaran", "prakaran_nam"}
KEYWORDS_3(m) == {"nivedak", "wadi"}
KEYWORDS_4(m) == IF m = M2015 THEN {"vipakshi", "pratiwadi", "vipaksh", "viruddha"}
                 ELSE IF m = S2061 THEN {"vipakshi", "pratiwadi"}
                 ELSE {"vipakshi", "pratiwadi", "vipaksh"}
KEYWORDS_5(m) == {"vishaya", "mudda", "vipaksh"}
KEYWORDS_6(m) == IF m = M2015 THEN {"ijlas"} ELSE {"adalat", "ijlas"}
KEYWORDS_7(m) == IF m = M2015 THEN {"adesh", "faisala", "nirnaya"}
                 ELSE {"adesh", "faisala", "nirnaya", "mudda"}
KEYWORDS_8(m) == {"nyayadhish", "mananiya"}
KEYWORDS_9(m) == {"viruddha"}
KEYWORDS_10(m) == {"WO"}

\* the inline tests of the 2045-2050, 2051-2061 and standalone extractors
JudgeInline == {"nyayadhish", "mananiya"}
CourtInline == {"ijlas"}
DateInline == {"adesh", "faisala", "nirnaya"}
SubjectInline == {"vishaya", "mudda"}

\* text in ["फैसला", "आदेश", "फैसलाः"]
HoldingTokens == {"faisala", "adesh", "faisalah"}
IsHoldingToken(text) == Equals(HoldingTokens, text)

\* "मिति" in text or "मिती" in text
HasMiti(text) == Contains({"miti"}, text)

\* ------------------------------------------------------------------------
\* Values of the details dictionary and of the persisted columns
\* ------------------------------------------------------------------------
Absent == [k |-> "absent", v |-> <<>>]
Str(t) == [k |-> "str", v |-> t]
List(l) == [k |-> "list", v |-> l]
Json(l) == [k |-> "json", v |-> l]
NA == Str(<<"N/A">>)

\* details = {}
EmptyDetails == [court |-> Absent, judges |-> Absent, order_date |-> Absent,
                 case_no |-> Absent, subject |-> Absent, petitioner |-> Absent,
                 respondent |-> Absent, prakaran |-> Absent, thahar |-> Absent]

\* details.get(key, "N/A")
GetOrNA(x) == IF x.k = "absent" THEN NA ELSE x

\* json.dumps(details.get(key, []))
GetJson(x) == IF x.k = "absent" THEN Json(<<>>) ELSE Json(x.v)

\* json.dumps(...) if isinstance(details.get(key), list) else details.get(key, "N/A")
GetJsonIfList(x) == IF x.k = "list" THEN Json(x.v) ELSE GetOrNA(x)

\* ------------------------------------------------------------------------
\* Numeral normalisation and year routing
\* ------------------------------------------------------------------------
Devanagari == <<"d0", "d1", "d2", "d3", "d4", "d5", "d6", "d7", "d8", "d9">>
Ascii == <<"0", "1", "2", "3", "4", "5", "6", "7", "8", "9">>

IsDevanagari(c) == \E i \in 1..10 : Devanagari[i] = c
IsAscii(c) == \E i \in 1..10 : Ascii[i] = c

\* nepali_to_english that leaves every character as it is
nepali_to_english_keep(c) == c

\* nepali_to_english.get(char, char)
nepali_to_english(c) ==
    IF IsDevanagari(c) THEN Ascii[CHOOSE i \in 1..10 : Devanagari[i] = c] ELSE c

nepali_sal_to_english_sal(s) == [i \in DOMAIN s |-> nepali_to_english(s[i])]

\* int(str) of a string of ASCII digits fails on an empty or non-numeric one
IsInt(s) == Len(s) > 0 /\ \A i \in DOMAIN s : IsAscii(s[i])

RECURSIVE ToInt(_)
ToInt(s) ==
    IF s = <<>> THEN 0
    ELSE 10 * ToInt(SubSeq(s, 1, Len(s) - 1))
         + (CHOOSE d \in 0..9 : Ascii[d + 1] = s[Len(s)])

\* determine_scraper_method without the upper end of its last range
determine_scraper_method_open(s, latest_nepali_year) ==
    LET e == nepali_sal_to_english_sal(s) IN
    IF ~IsInt(e) THEN ValueError
    ELSE LET eng_sal == ToInt(e) IN
         IF 2015 <= eng_sal /\ eng_sal <= 2044 THEN M2015
         ELSE IF 2045 <= eng_sal /\ eng_sal <= 2050 THEN M2045
         ELSE IF 2051 <= eng_sal /\ eng_sal <= 2061 THEN M2051
         ELSE IF 2062 <= eng_sal /\ eng_sal <= 2072 THEN M2062
         ELSE IF 2073 <= eng_sal THEN M2073
         ELSE ValueError

\* determine_scraper_method with the 2062-2072 range ending eleven years
\* before the current year instead of at 2072
determine_scraper_method_relative(s, latest_nepali_year) ==
    LET e == nepali_sal_to_english_sal(s) IN
    IF ~IsInt(e) THEN ValueError
    ELSE LET eng_sal == ToInt(e) IN
         IF 2015 <= eng_sal /\ eng_sal <= 2044 THEN M2015
         ELSE IF 2045 <= eng_sal /\ eng_sal <= 2050 THEN M2045
         ELSE IF 2051 <= eng_sal /\ eng_sal <= 2061 THEN M2051
         ELSE IF 2062 <= eng_sal /\ eng_sal < latest_nepali_year - 11 THEN M2062
         ELSE IF 2073 <= eng_sal /\ eng_sal < latest_nepali_year THEN M2073
         ELSE ValueError

\* determine_scraper_method with "<" for "<=" at the end of the 2045-2050 range
determine_scraper_method_strict(s, latest_nepali_year) ==
    LET e == nepali_sal_to_english_sal(s) IN
    IF ~IsInt(e) THEN ValueError
    ELSE LET eng_sal == ToInt(e) IN
         IF 2015 <= eng_sal /\ eng_sal <= 2044 THEN M2015
         ELSE IF 2045 <= eng_sal /\ eng_sal < 2050 THEN M2045
         ELSE IF 2051 <= eng_sal /\ eng_sal <= 2061 THEN M2051
         ELSE IF 2062 <= eng_sal /\ eng_sal <= 2072 THEN M2062
         ELSE IF 2073 <= eng_sal /\ eng_sal < latest_nepali_year THEN M2073
         ELSE ValueError

determine_scraper_method(s, latest_nepali_year) ==
    LET e == nepali_sal_to_english_sal(s) IN
    IF ~IsInt(e) THEN ValueError
    ELSE LET eng_sal == ToInt(e) IN
         IF 2015 <= eng_sal /\ eng_sal <= 2044 THEN M2015
         ELSE IF 2045 <= eng_sal /\ eng_sal <= 2050 THEN M2045
         ELSE IF 2051 <= eng_sal /\ eng_sal <= 2061 THEN M2051
         ELSE IF 2062 <= eng_sal /\ eng_sal <= 2072 THEN M2062
         ELSE IF 2073 <= eng_sal /\ eng_sal < latest_nepali_year THEN M2073
         ELSE ValueError

\* ------------------------------------------------------------------------
\* Saved HTML files and retrieval
\* ------------------------------------------------------------------------
max_retries == 3

\* re.search(r'/(\d+)/?$', url): a url without a trailing number has num = ""
extract_link_number(u) == IF u.num = "" THEN "unknown" ELSE u.num

generate_html_filename(u, s) ==
    <<nepali_sal_to_english_sal(s), extract_link_number(u)>>

\* the data dictionary handed to save_to_sqlite; the columns read from the
\* page header (title, edition, decision date) and mudda_type are left out
BuildData(u, s, d) ==
    [link |-> u,
     court |-> GetOrNA(d.court),
     judges |-> GetJson(d.judges),
     order_date |-> GetOrNA(d.order_date),
     case_no |-> GetJsonIfList(d.case_no),
     subject |-> GetOrNA(d.subject),
     petitioner |-> GetJsonIfList(d.petitioner),
     respondent |-> GetJsonIfList(d.respondent),
     prakaran |-> GetJson(d.prakaran),
     thahar |-> GetJson(d.thahar),
     html_file_path |-> IF s # <<>> THEN generate_html_filename(u, s) ELSE <<>>]

\* Backoff that also sleeps after the last attempt
Backoff_afterLast(failed, retries) ==
    [k \in 1..(IF failed < retries THEN failed ELSE retries) |-> 2^(k - 1)]

\* the delays after `failed` failed attempts out of at most `retries`:
\* if attempt < max_retries - 1: time.sleep(2 ** attempt)
Backoff(failed, retries) ==
    [k \in 1..(IF failed < retries THEN failed ELSE retries - 1) |-> 2^(k - 1)]

\* return_soup: the saved copy first, then at most max_retries requests, of
\* which the first `fails` fail
return_soup(u, s, use_saved, store, page, fails) ==
    LET fn == generate_html_filename(u, s) IN
    IF use_saved /\ fn \in DOMAIN store
    THEN [soup |-> store[fn], ok |-> TRUE, requests |-> 0, sleeps |-> <<>>,
          store |-> store]
    ELSE IF fails < max_retries
    THEN [soup |-> page, ok |-> TRUE, requests |-> fails + 1,
          sleeps |-> Backoff(fails, max_retries),
          store |-> [f \in DOMAIN store \cup {fn} |->
                        IF f = fn THEN page ELSE store[f]]]
    ELSE [soup |-> page, ok |-> FALSE, requests |-> max_retries,
          sleeps |-> Backoff(max_retries, max_retries), store |-> store]

\* ------------------------------------------------------------------------
\* Persistence: table cases, link UNIQUE, id INTEGER PRIMARY KEY AUTOINCREMENT
\* ------------------------------------------------------------------------
\* save_to_sqlite with a plain INSERT: the row holding the link stays
save_to_sqlite_insert(rows, sq, data) ==
    [rows |-> rows \cup {[id |-> sq + 1, link |-> data.link, data |-> data]},
     sq |-> sq + 1]

\* INSERT OR REPLACE INTO cases: the row holding the link is deleted and a
\* new row is inserted under the next AUTOINCREMENT id
save_to_sqlite(rows, sq, data) ==
    [rows |-> {r \in rows : r.link # data.link}
                \cup {[id |-> sq + 1, link |-> data.link, data |-> data]},
     sq |-> sq + 1]

\* SELECT link FROM cases WHERE link = ?
Exists(rows, u) == \E r \in rows : r.link = u

\* ------------------------------------------------------------------------
\* Scanning the block sequence tags; ind is the 0-based Python index
\* ------------------------------------------------------------------------
\* tags[j].get_text(separator=' ', strip=True)
T(tg, j) == tg[j + 1].text

SetMin(S) == CHOOSE x \in S : \A y \in S : x <= y
SetMax(S) == CHOOSE x \in S : \A y \in S : y <= x

\* the texts of the blocks of tags; a test of the code on a block's text is
\* given below as the set of the texts that pass it
Texts(tg) == {tg[k].text : k \in DOMAIN tg}

\* the index at which "while ind < n: if text passes P: break; ind += 1" stops
First(tg, i, P) ==
    LET S == {j \in i..(Len(tg) - 1) : T(tg, j) \in P} IN
    IF S = {} THEN Len(tg) ELSE SetMin(S)

\* the last non-empty text of tags[i:j], "" when there is none
LastText(tg, i, j) ==
    LET S == {k \in i..(j - 1) : T(tg, k) # <<>>} IN
    IF S = {} THEN <<>> ELSE T(tg, SetMax(S))

\* the texts of tags[i:j] that satisfy P, in order
Collect(tg, i, j, P) ==
    LET S == {k \in i..(j - 1) : T(tg, k) \in P} IN
    [r \in 1..Cardinality(S) |->
        T(tg, CHOOSE k \in S : Cardinality({x \in S : x <= k}) = r)]

\* outcome of one scan loop: the index it leaves, the details it wrote,
\* whether the loop ran off the end of tags without a break (ex), and whether
\* it indexed tags out of range (err, an IndexError); flag is the boolean the
\* loop sets for the later phases, when it sets one
Scan(i, d, ex, err) ==
    [ind |-> i, d |-> d, ex |-> ex, err |-> err, flag |-> FALSE]
Flagged(s) == [s EXCEPT !.flag = TRUE]

\* RevertOrCommit with a reset to the start of tags instead of temp_ind_32
RevertOrCommit_toStart(i, cp, n) ==
    IF i >= n THEN [ind |-> 0, cp |-> cp] ELSE [ind |-> i, cp |-> i]

\* if ind >= n: ind = temp_ind_32 / else: temp_ind_32 = ind
RevertOrCommit(i, cp, n) ==
    IF i >= n THEN [ind |-> cp, cp |-> cp] ELSE [ind |-> i, cp |-> i]

\* if ind >= n: ind = temp_ind_32   (no else branch)
RevertOnly(i, cp, n) ==
    IF i >= n THEN [ind |-> cp, cp |-> cp] ELSE [ind |-> i, cp |-> cp]

\* if ind > n: ind = temp_ind_32 / else: temp_ind_32 = ind
RevertIfPast(i, cp, n) ==
    IF i > n THEN [ind |-> cp, cp |-> cp] ELSE [ind |-> i, cp |-> i]

\* ------------------------------------------------------------------------
\* Phase 1: court / bench
\* ------------------------------------------------------------------------
\* 2015-2044 and 2062-2072: bench label with a two-block lookahead
CourtLookahead(m, tg, i, d) ==
    LET n == Len(tg)
        j == First(tg, i, {t \in Texts(tg) : t # <<>> /\
                 (Contains(KEYWORDS_6(m), t) \/ Contains(KEYWORDS_8(m), t))})
        temp_ijlash == LastText(tg, i, j)
        withTemp == IF ~Contains({"nirnaya_nam"}, temp_ijlash)
                    THEN [d EXCEPT !.court = Str(temp_ijlash)] ELSE d
    IN  IF j >= n THEN Scan(n, d, TRUE, FALSE)
        ELSE IF Equals(KEYWORDS_6(m), T(tg, j)) THEN Scan(j + 1, withTemp, FALSE, FALSE)
        ELSE IF Contains(KEYWORDS_6(m), T(tg, j)) THEN
            IF j + 1 >= n THEN Scan(j + 1, d, FALSE, TRUE)
            ELSE IF ~Contains(KEYWORDS_8(m), T(tg, j + 1))
                 THEN Scan(j + 2, [d EXCEPT !.court = Str(Join(T(tg, j), T(tg, j + 1)))],
                           FALSE, FALSE)
                 ELSE Scan(j + 1, [d EXCEPT !.court = Str(T(tg, j))], FALSE, FALSE)
        ELSE Scan(j, withTemp, FALSE, FALSE)

\* 2045-2050
Court2045(m, tg, i, d) ==
    LET n == Len(tg)
        j == First(tg, i, {t \in Texts(tg) : t # <<>> /\
                 (Contains(KEYWORDS_6(m), t) \/ Contains(JudgeInline, t))})
        temp_ijlash == LastText(tg, i, j)
    IN  IF j >= n THEN Scan(n, d, TRUE, FALSE)
        ELSE IF Equals(KEYWORDS_6(m), T(tg, j))
             THEN Scan(j + 1, [d EXCEPT !.court = Str(temp_ijlash)], FALSE, FALSE)
        ELSE IF Contains(KEYWORDS_6(m), T(tg, j))
             THEN Scan(j + 1, [d EXCEPT !.court = Str(T(tg, j))], FALSE, FALSE)
        ELSE Scan(j, [d EXCEPT !.court = Str(temp_ijlash)], FALSE, FALSE)

\* 2051-2061, the standalone 2061-2051 file (inline test) and 2073+ (KEYWORDS_6)
CourtSimple(m, tg, i, d) ==
    LET n == Len(tg)
        kws == IF m = M2073 THEN KEYWORDS_6(m) ELSE CourtInline
        j == First(tg, i, {t \in Texts(tg) : t # <<>> /\ Contains(kws, t)})
    IN  IF j >= n THEN Scan(n, d, TRUE, FALSE)
        ELSE Scan(j + 1, [d EXCEPT !.court = Str(T(tg, j))], FALSE, FALSE)

CourtPhase(m, tg, i, d) ==
    IF m \in {M2015, M2062} THEN CourtLookahead(m, tg, i, d)
    ELSE IF m = M2045 THEN Court2045(m, tg, i, d)
    ELSE CourtSimple(m, tg, i, d)

\* ------------------------------------------------------------------------
\* Phase 2: judges
\* ------------------------------------------------------------------------
\* 2015-2044
Judges2015(m, tg, i, d) ==
    LET n == Len(tg)
        j == First(tg, i, {t \in Texts(tg) : t # <<>> /\ ~Contains(KEYWORDS_8(m), t)})
        judges == Collect(tg, i, j, {t \in Texts(tg) : t # <<>>})
        d1 == [d EXCEPT !.judges = List(judges)]
    IN  IF j >= n THEN Scan(n, d, TRUE, FALSE)
        ELSE IF ~Contains(KEYWORDS_3(m), T(tg, j)) /\ ~Contains(KEYWORDS_5(m), T(tg, j))
             THEN Scan(j + 1, [d1 EXCEPT !.case_no = Str(T(tg, j))], FALSE, FALSE)
             ELSE Scan(j, d1, FALSE, FALSE)

\* 2045-2050, 2051-2061 and the standalone file: the loop runs until an
\* order-date line; every other non-judge line overwrites the case number
JudgesDated(m, tg, i, d) ==
    LET n == Len(tg)
        IsJudge(t) == Contains(JudgeInline, t)
        IsDate(t) == (IF m = M2045 THEN Contains(KEYWORDS_7(m), t)
                      ELSE Contains(DateInline, t)) /\ Contains({"miti"}, t)
        j == First(tg, i, {t \in Texts(tg) : t # <<>> /\ ~IsJudge(t) /\ IsDate(t)})
        judges == Collect(tg, i, j, {t \in Texts(tg) : t # <<>> /\ IsJudge(t)})
        others == Collect(tg, i, j, {t \in Texts(tg) : t # <<>> /\ ~IsJudge(t)})
        d1 == IF others = <<>> THEN d
              ELSE [d EXCEPT !.case_no = Str(others[Len(others)])]
    IN  IF j >= n THEN Scan(n, d1, TRUE, FALSE)
        ELSE Scan(j + 1, [d1 EXCEPT !.judges = List(judges),
                                    !.order_date = Str(T(tg, j))], FALSE, FALSE)

\* 2062-2072; the flag is faisla_miti_before_case_no
Judges2062(m, tg, i, d) ==
    LET n == Len(tg)
        j == First(tg, i, {t \in Texts(tg) : t # <<>> /\ ~Contains(KEYWORDS_8(m), t)})
        judges == Collect(tg, i, j, {t \in Texts(tg) : t # <<>>})
        d1 == [d EXCEPT !.judges = List(judges)]
    IN  IF j >= n THEN Scan(n, d, TRUE, FALSE)
        ELSE LET t == T(tg, j) IN
             IF StartsWith(KEYWORDS_7(m), t) /\ HasMiti(t)
             THEN Flagged(Scan(j + 1, [d1 EXCEPT !.order_date = Str(t)], FALSE, FALSE))
             ELSE IF Contains(KEYWORDS_10(m), t)
             THEN Scan(j, [d1 EXCEPT !.case_no = Str(t)], FALSE, FALSE)
             ELSE IF ~Contains(KEYWORDS_3(m), t) /\ ~Contains(KEYWORDS_5(m), t)
             THEN IF t # <<"faisala">>
                  THEN Scan(j + 1, [d1 EXCEPT !.case_no = Str(t)], FALSE, FALSE)
                  ELSE IF j + 1 >= n THEN Scan(j + 1, d1, FALSE, TRUE)
                  ELSE Scan(j + 2, [d1 EXCEPT !.case_no = Str(T(tg, j + 1))],
                            FALSE, FALSE)
             ELSE Scan(j, d1, FALSE, FALSE)

\* 2073 and later: judge lines are collected up to and including the
\* order-date line, other lines in between are skipped
Judges2073(m, tg, i, d) ==
    LET n == Len(tg)
        j == First(tg, i, {t \in Texts(tg) : t # <<>> /\ StartsWith(KEYWORDS_7(m), t) /\ HasMiti(t)})
        judges == Collect(tg, i, j + 1, {t \in Texts(tg) : t # <<>> /\ Contains(KEYWORDS_8(m), t)})
    IN  IF j >= n THEN Scan(n, d, TRUE, FALSE)
        ELSE Scan(j + 1, [d EXCEPT !.judges = List(judges),
                                   !.order_date = Str(T(tg, j))], FALSE, FALSE)

JudgesPhase(m, tg, i, d) ==
    IF m = M2015 THEN Judges2015(m, tg, i, d)
    ELSE IF m = M2062 THEN Judges2062(m, tg, i, d)
    ELSE IF m = M2073 THEN Judges2073(m, tg, i, d)
    ELSE JudgesDated(m, tg, i, d)

\* ------------------------------------------------------------------------
\* Phase 3: subject placement, order date and case number before the parties
\* ------------------------------------------------------------------------
\* IsParty that looks for the petitioner keywords only
IsParty_petitionerOnly(m, t) == Contains(KEYWORDS_3(m), t)

IsParty(m, t) == Contains(KEYWORDS_3(m), t) \/ Contains(KEYWORDS_4(m), t)

\* 2015-2044: bisaya_before_niweduck, found with the scratch index temp_ind_64
Lookahead2015(m, tg, i, d) ==
    LET n == Len(tg)
        j == First(tg, i, {t \in Texts(tg) : IsParty(m, t) \/ Contains(KEYWORDS_5(m), t)})
    IN  IF j >= n THEN Scan(i, d, TRUE, FALSE)
        ELSE IF ~IsParty(m, T(tg, j)) THEN Flagged(Scan(i, d, FALSE, FALSE))
        ELSE Scan(i, d, FALSE, FALSE)

\* 2045-2050: the same test, but the loop moves ind itself; details["विषय"] = ""
Lookahead2045(m, tg, i, d) ==
    LET n == Len(tg)
        d1 == [d EXCEPT !.subject = Str(<<>>)]
        j == First(tg, i, {t \in Texts(tg) : IsParty(m, t) \/ Contains(KEYWORDS_5(m), t)})
    IN  IF j >= n THEN Scan(n, d1, TRUE, FALSE)
        ELSE IF ~IsParty(m, T(tg, j)) THEN Flagged(Scan(j, d1, FALSE, FALSE))
        ELSE Scan(j, d1, FALSE, FALSE)

\* a scan for the line hit(text) that gives up at a line stop(text) by going
\* back to the checkpoint
ScanUntil(tg, i, cp, d, key, hit, stop) ==
    LET n == Len(tg)
        j == First(tg, i, hit \cup stop)
    IN  IF j >= n THEN Scan(n, d, TRUE, FALSE)
        ELSE IF T(tg, j) \in hit
             THEN Scan(j + 1, [d EXCEPT ![key] = Str(T(tg, j))], FALSE, FALSE)
             ELSE Scan(cp, d, FALSE, FALSE)

Never == {}
IsOrderDate(m, t) == StartsWith(KEYWORDS_7(m), t) /\ HasMiti(t)

\* 2015-2044, before the parties: the subject when it comes first, else the
\* order date; both give up at a petitioner line
PreParty2015(m, tg, i, cp, d, bisaya) ==
    IF bisaya
    THEN ScanUntil(tg, i, cp, d, "subject",
                   {t \in Texts(tg) : StartsWith(KEYWORDS_5(m), t)},
                   {t \in Texts(tg) : Contains(KEYWORDS_3(m), t)})
    ELSE ScanUntil(tg, i, cp, d, "order_date",
                   {t \in Texts(tg) : IsOrderDate(m, t)},
                   {t \in Texts(tg) : Contains(KEYWORDS_3(m), t)})

\* 2015-2044, after the parties: the other of the two; both give up at a
\* citation marker
PostParty2015(m, tg, i, cp, d, bisaya) ==
    IF ~bisaya
    THEN ScanUntil(tg, i, cp, d, "subject",
                   {t \in Texts(tg) : StartsWith(KEYWORDS_5(m), t)},
                   {t \in Texts(tg) : Contains(KEYWORDS_2(m), t)})
    ELSE ScanUntil(tg, i, cp, d, "order_date",
                   {t \in Texts(tg) : IsOrderDate(m, t)},
                   {t \in Texts(tg) : Contains(KEYWORDS_2(m), t)})

\* 2045-2050 (before or after the parties) and the standard path of 2073+
SubjectContains(m, tg, i, cp, d) ==
    ScanUntil(tg, i, cp, d, "subject",
              {t \in Texts(tg) : Contains(KEYWORDS_5(m), t)}, Never)

\* 2051-2061 and the standalone file
Subject2051(m, tg, i, cp, d) ==
    ScanUntil(tg, i, cp, d, "subject",
              {t \in Texts(tg) : Contains(SubjectInline, t)}, Never)

\* 2062-2072 after the judges: case number or subject after an order date,
\* else the order date, giving up at a citation or holding line
CaseNo2062(m, tg, i, cp, d, faisla_miti_before_case_no) ==
    LET n == Len(tg) IN
    IF faisla_miti_before_case_no
    THEN LET j == First(tg, i, {t \in Texts(tg) : t # <<>>}) IN
         IF j >= n THEN Scan(n, d, TRUE, FALSE)
         ELSE IF Contains(KEYWORDS_10(m), T(tg, j))
              THEN Scan(j + 1, [d EXCEPT !.case_no = Str(T(tg, j))], FALSE, FALSE)
         ELSE IF StartsWith(KEYWORDS_5(m), T(tg, j))
              THEN Flagged(Scan(j + 1, [d EXCEPT !.subject = Str(T(tg, j))],
                                FALSE, FALSE))
         ELSE Scan(j + 1, [d EXCEPT !.case_no = Str(T(tg, j))], FALSE, FALSE)
    ELSE ScanUntil(tg, i, cp, d, "order_date",
                   {t \in Texts(tg) : t # <<>> /\ IsOrderDate(m, t)},
                   {t \in Texts(tg) : t # <<>> /\ (StartsWith(KEYWORDS_2(m), t)
                                           \/ IsHoldingToken(t))})

\* 2062-2072: the case number after a subject, else the subject, giving up at
\* a petitioner line
Pre2062(m, tg, i, cp, d, subject_before_case_no) ==
    IF subject_before_case_no
    THEN ScanUntil(tg, i, cp, d, "case_no", {t \in Texts(tg) : t # <<>>}, Never)
    ELSE ScanUntil(tg, i, cp, d, "subject",
                   {t \in Texts(tg) : t # <<>> /\ StartsWith(KEYWORDS_5(m), t)},
                   {t \in Texts(tg) : t # <<>> /\ Contains(KEYWORDS_3(m), t)})

\* 2073+: the first non-empty line is the subject (bisaya_before_kas_no) or
\* the case number, which is left in place
CaseDetails2073(m, tg, i, d) ==
    LET n == Len(tg)
        j == First(tg, i, {t \in Texts(tg) : t # <<>>})
    IN  IF j >= n THEN Scan(n, d, TRUE, FALSE)
        ELSE IF Contains(KEYWORDS_5(m), T(tg, j))
             THEN Flagged(Scan(j + 1, [d EXCEPT !.subject = Str(T(tg, j))],
                               FALSE, FALSE))
             ELSE Scan(j, [d EXCEPT !.case_no = Str(T(tg, j))], FALSE, FALSE)

\* ------------------------------------------------------------------------
\* Phase 4: petitioner and respondent
\* ------------------------------------------------------------------------
\* the value of a party line: the line itself, or the next line when the line
\* is a bare label; only 2051-2061 and the standalone file check the bound
PartyScan(m, kws, tg, i) ==
    LET n == Len(tg)
        guarded == m \in {M2051, S2061}
        j == First(tg, i, {t \in Texts(tg) : Contains(kws, t)})
        R(ix, ex, err, found, val) ==
            [ind |-> ix, ex |-> ex, err |-> err, found |-> found, val |-> val]
    IN  IF j >= n THEN R(n, TRUE, FALSE, FALSE, <<>>)
        ELSE IF Equals(kws, T(tg, j))
             THEN IF j + 1 < n THEN R(j + 2, FALSE, FALSE, TRUE, T(tg, j + 1))
                  ELSE IF guarded THEN R(j + 2, FALSE, FALSE, TRUE, T(tg, j))
                  ELSE R(j + 1, FALSE, TRUE, FALSE, <<>>)
             ELSE R(j + 1, FALSE, FALSE, TRUE, T(tg, j))

\* 2062-2072: the number of versus lines up to the first citation marker
CountVersus(m, tg, i) ==
    LET n == Len(tg)
        stop == First(tg, i, {t \in Texts(tg) : StartsWith(KEYWORDS_2(m), t)})
        last == IF stop >= n THEN n - 1 ELSE stop
    IN  Cardinality({k \in i..last : Equals(KEYWORDS_9(m), T(tg, k))})

\* 2062-2072: the case numbers of a consolidated case, from the top
CollectCaseNo2062(m, tg) ==
    LET n == Len(tg)
        stop == First(tg, 0, {t \in Texts(tg) : t # <<>> /\
                    (StartsWith(KEYWORDS_2(m), t) \/ Equals(KEYWORDS_7(m), t))})
        last == IF stop >= n THEN n ELSE stop + 1
    IN  Collect(tg, 0, last, {t \in Texts(tg) : t # <<>> /\ Contains(KEYWORDS_10(m), t)})

\* MultiIter2073 that reads nothing and leaves the cursor where it is
MultiIter2073_stay(m, tg, i, cn, ap, op) ==
    [ind |-> i, err |-> FALSE, case_no |-> cn, appellant |-> ap,
     opposition |-> op, ended |-> FALSE]

\* 2073+: one round of the repeating loop for a consolidated case: a case
\* number, a petitioner, a respondent, then the look for a citation marker
\* (which ends the loop and writes the lists) or the next versus line
MultiIter2073(m, tg, i, cn, ap, op) ==
    LET n == Len(tg)
        c == First(tg, i, {t \in Texts(tg) : t # <<>>})
        cn1 == IF c < n THEN Append(cn, T(tg, c)) ELSE cn
        i1 == IF c < n THEN c + 1 ELSE n
        a == PartyScan(m, KEYWORDS_3(m), tg, i1)
        ap1 == IF a.found THEN Append(ap, a.val) ELSE ap
        o == PartyScan(m, KEYWORDS_4(m), tg, a.ind)
        op1 == IF o.found THEN Append(op, o.val) ELSE op
        e == First(tg, o.ind, {t \in Texts(tg) : Contains(KEYWORDS_2(m), t)
                                         \/ Equals(KEYWORDS_9(m), t)})
    IN  IF a.err THEN [ind |-> a.ind, err |-> TRUE, case_no |-> cn1,
                       appellant |-> ap, opposition |-> op, ended |-> FALSE]
        ELSE [ind |-> o.ind, err |-> o.err, case_no |-> cn1,
              appellant |-> ap1, opposition |-> op1,
              ended |-> ~o.err /\ e < n /\ Contains(KEYWORDS_2(m), T(tg, e))]

\* ------------------------------------------------------------------------
\* Phase 6: citations (prakarans) and holding (tahar)
\* ------------------------------------------------------------------------
\* the non-empty texts visited by "for tag in tags[ind:]": each tag, then the
\* <li> items of the lists that follow it; src = <<tag index, item number>>
RECURSIVE Units(_, _)
Units(tg, k) ==
    IF k >= Len(tg) THEN <<>>
    ELSE LET b == tg[k + 1]
             own == IF b.text # <<>>
                    THEN <<[text |-> b.text, li |-> FALSE, src |-> <<k, 0>>]>>
                    ELSE <<>>
             items == [r \in 1..Len(b.li) |->
                          [text |-> b.li[r], li |-> TRUE, src |-> <<k, r>>]]
         IN  own \o SelectSeq(items, LAMBDA u : u.text # <<>>) \o Units(tg, k + 1)

SegState(pk, pv, th, fl) ==
    [prakarans |-> pk, prev |-> pv, tahar |-> th, temp_flag_tahar |-> fl]

HasSection(text) == Contains({"section"}, text)

\* TaharStep without the test of temp_flag_tahar: only the tokens are appended
TaharStep_tokenOnly(st, text) ==
    IF IsHoldingToken(text)
    THEN [st EXCEPT !.temp_flag_tahar = TRUE, !.tahar = Append(st.tahar, text)]
    ELSE st

\* TaharStep that starts the holding after the token instead of with it
TaharStep_afterToken(st, text) ==
    IF st.temp_flag_tahar THEN [st EXCEPT !.tahar = Append(st.tahar, text)]
    ELSE IF IsHoldingToken(text) THEN [st EXCEPT !.temp_flag_tahar = TRUE]
    ELSE st

\* if li_text in [...] or temp_flag_tahar: temp_flag_tahar = True; tahar.append
TaharStep(st, text) ==
    IF IsHoldingToken(text) \/ st.temp_flag_tahar
    THEN [st EXCEPT !.temp_flag_tahar = TRUE, !.tahar = Append(st.tahar, text)]
    ELSE st

\* Accumulate that leaves prev as it is
Accumulate_skip(st, text) == st

\* prev = prev + " " + text if prev else text
Accumulate(st, text) ==
    [st EXCEPT !.prev = IF st.prev # <<>> THEN Join(st.prev, text) ELSE text]

\* if prev: prakarans.append(prev) / prakarans.append(text) / prev = ""
FlushAndCite(st, text) ==
    [st EXCEPT !.prakarans = (IF st.prev # <<>> THEN Append(st.prakarans, st.prev)
                              ELSE st.prakarans) \o <<text>>,
               !.prev = <<>>]

\* SegParagraph without the test "if not prakarans": every holding token
\* appends prev to prakarans
SegParagraph_alwaysPrev(m, st, text) ==
    LET cite == StartsWith(KEYWORDS_2(m), text)
        s1 == IF cite THEN FlushAndCite(st, text) ELSE st
        s2 == IF HasSection(text)
              THEN [s1 EXCEPT !.prakarans = Append(s1.prakarans, text)] ELSE s1
        s3 == IF IsHoldingToken(text)
              THEN [s2 EXCEPT !.prakarans = Append(s2.prakarans, s2.prev)] ELSE s2
    IN  TaharStep(IF HasSection(text) \/ cite \/ IsHoldingToken(text)
                  THEN s3 ELSE Accumulate(st, text), text)

\* a paragraph or heading in the five era extractors
SegParagraph(m, st, text) ==
    LET cite == StartsWith(KEYWORDS_2(m), text)
        s1 == IF cite THEN FlushAndCite(st, text) ELSE st
        s2 == IF HasSection(text)
              THEN [s1 EXCEPT !.prakarans = Append(s1.prakarans, text)] ELSE s1
        s3 == IF IsHoldingToken(text) /\ s2.prakarans = <<>>
              THEN [s2 EXCEPT !.prakarans = Append(s2.prakarans, s2.prev)] ELSE s2
    IN  TaharStep(IF HasSection(text) \/ cite \/ IsHoldingToken(text)
                  THEN s3 ELSE Accumulate(st, text), text)

\* a list item in the five era extractors
SegListItem(m, st, text) ==
    TaharStep(IF StartsWith(KEYWORDS_2(m), text)
              THEN FlushAndCite(st, text) ELSE Accumulate(st, text), text)

\* a paragraph in the standalone 2061-2051 file
SegParagraphS2061(m, st, text) ==
    LET cite == Contains(KEYWORDS_2(m), text)
        s1 == IF cite
              THEN [st EXCEPT !.prakarans =
                        IF st.prev # <<>> THEN Append(st.prakarans, st.prev)
                        ELSE st.prakarans,
                    !.prev = <<>>]
              ELSE st
    IN  TaharStep(IF HasSection(text) \/ cite
                  THEN [s1 EXCEPT !.prakarans = Append(s1.prakarans, text)]
                  ELSE Accumulate(st, text), text)

\* a list item in the standalone 2061-2051 file
SegListItemS2061(m, st, text) ==
    TaharStep(IF Contains(KEYWORDS_2(m), text)
              THEN FlushAndCite(st, text) ELSE Accumulate(st, text), text)

SegUnit(m, st, u) ==
    IF m = S2061
    THEN IF u.li THEN SegListItemS2061(m, st, u.text)
         ELSE SegParagraphS2061(m, st, u.text)
    ELSE IF u.li THEN SegListItem(m, st, u.text)
         ELSE SegParagraph(m, st, u.text)

\* ------------------------------------------------------------------------
\* State
\* ------------------------------------------------------------------------
VARIABLES
    scraper,     \* the run_scraper call in progress, NoRun when there is none
    work,        \* the invocations still to come: url, sal, date, network
    web,         \* url -> the page the site serves for it
    pc,          \* position in the current invocation, "idle" between two
    url, sal, today, method,
    use_saved,   \* the use_saved argument of the current invocation
    fails,       \* how many of its next requests the network fails
    result,      \* return value of the last finished invocation
    raised,      \* whether it ended in the except handler
    selected,    \* the outcomes of determine_scraper_method so far
    saved,       \* html file name -> saved page
    fetches,     \* number of network requests made
    slept,       \* the delays of the time.sleep calls made, in order
    cases,       \* rows of the table cases
    seq_id,      \* AUTOINCREMENT counter of the table cases
    tags, ind, temp_ind_32, details,
    bisaya, faisla_miti_before_case_no, subject_before_case_no,
    count_how_many, multi, temp_flag,
    case_no, appellant, opposition,
    seg,         \* the units of tags[ind:] still to be visited
    visited,     \* the units visited so far
    prakarans, prev, tahar, temp_flag_tahar,
    tahar_src,   \* the unit each entry of tahar was copied from
    phase, before, exhausted   \* the last scan: its name, the index it started
                               \* from, whether it ran off the end of tags

callVars == <<url, sal, today, method, use_saved, fails, selected>>
storeVars == <<saved, fetches, slept, cases, seq_id>>
cursorVars == <<ind, temp_ind_32>>
flagVars == <<bisaya, faisla_miti_before_case_no, subject_before_case_no,
              count_how_many, multi, temp_flag>>
listVars == <<case_no, appellant, opposition>>
segVars == <<seg, visited, prakarans, prev, tahar, temp_flag_tahar, tahar_src>>
histVars == <<phase, before, exhausted>>

vars == <<scraper, work, web, pc, url, sal, today, method, use_saved, fails, result, raised, selected,
          saved, fetches, slept, cases, seq_id, tags, ind, temp_ind_32, details,
          bisaya, faisla_miti_before_case_no, subject_before_case_no,
          count_how_many, multi, temp_flag, case_no, appellant, opposition,
          seg, visited, prakarans, prev, tahar, temp_flag_tahar, tahar_src,
          phase, before, exhausted>>

\* ------------------------------------------------------------------------
\* Inputs
\* ------------------------------------------------------------------------
Blk(t) == [text |-> t, li |-> <<>>]
BlkLi(t, items) == [text |-> t, li |-> items]
Page(tg) == [div |-> TRUE, tags |-> tg]
NoDetail == [div |-> FALSE, tags |-> <<>>]

RECURSIVE SeqsUpTo(_, _)
SeqsUpTo(S, k) ==
    IF k = 0 THEN {<<>>}
    ELSE LET R == SeqsUpTo(S, k - 1) IN
         R \cup {Append(q, x) : q \in {r \in R : Len(r) = k - 1}, x \in S}

U1 == [path |-> "full_detail", num |-> "1"]
U2 == [path |-> "full_detail", num |-> "2"]

Digit(y, e) == (y \div e) % 10
Encode(y, glyphs) ==
    <<glyphs[Digit(y, 1000) + 1], glyphs[Digit(y, 100) + 1],
      glyphs[Digit(y, 10) + 1], glyphs[Digit(y, 1) + 1]>>

\* the current Nepali year of the runs, and one year of each era
ThisYear == 2083
YearOf(m) == IF m = M2015 THEN 2015 ELSE IF m = M2045 THEN 2050
             ELSE IF m = M2051 THEN 2061 ELSE IF m = M2062 THEN 2062
             ELSE 2073

\* an invocation: the url, the sal argument and the year it denotes (-1 when
\* it denotes none), the Nepali year of the day it runs, the number of failing
\* responses ahead, and whether the standalone program makes it
Item(u, s, y, at, nf, alone) ==
    [url |-> u, sal |-> s, year |-> y, at |-> at, fails |-> nf,
     use_saved |-> TRUE, standalone |-> alone]

\* one call of the extractor m on the url u
CallOf(m, u) ==
    IF m = S2061 THEN Item(u, <<>>, -1, ThisYear, 0, TRUE)
    ELSE Item(u, Encode(YearOf(m), Devanagari), YearOf(m), ThisYear, 0, FALSE)

\* no run_scraper call: the extractors are called one by one from work
NoRun == [stage |-> "none"]

IdleState(w, pages) ==
    /\ work = w
    /\ web = pages
    /\ pc = "idle"
    /\ url = U1 /\ sal = <<>> /\ today = ThisYear /\ method = "none"
    /\ use_saved = TRUE /\ fails = 0
    /\ result = "none" /\ raised = FALSE /\ selected = <<>>
    /\ saved = <<>> /\ fetches = 0 /\ slept = <<>> /\ cases = {} /\ seq_id = 0
    /\ tags = <<>> /\ ind = 0 /\ temp_ind_32 = 0 /\ details = EmptyDetails
    /\ bisaya = FALSE /\ faisla_miti_before_case_no = FALSE
    /\ subject_before_case_no = FALSE /\ count_how_many = 0
    /\ multi = FALSE /\ temp_flag = FALSE
    /\ case_no = <<>> /\ appellant = <<>> /\ opposition = <<>>
    /\ seg = <<>> /\ visited = <<>> /\ prakarans = <<>> /\ prev = <<>>
    /\ tahar = <<>> /\ temp_flag_tahar = FALSE /\ tahar_src = <<>>
    /\ phase = "none" /\ before = 0 /\ exhausted = FALSE

Idle(w, pages) ==
    /\ scraper = NoRun
    /\ IdleState(w, pages)

\* ------------------------------------------------------------------------
\* Actions
\* ------------------------------------------------------------------------
N == Len(tags)

\* return False, from a guard or from "except Exception"
Return(value, exc) ==
    /\ pc' = "idle"
    /\ result' = value
    /\ raised' = exc

\* the revert-or-commit statement that follows a scan loop
AfterScan(m, i, cp, n) ==
    IF m = S2061 THEN RevertOnly(i, cp, n) ELSE RevertOrCommit(i, cp, n)

\* a finished scan r of the phase named ph, followed by the statement rc
Scanned(ph, r, rc, next) ==
    IF r.err
    THEN /\ Return("False", TRUE)
         /\ UNCHANGED <<cursorVars, details, histVars>>
    ELSE /\ ind' = rc.ind
         /\ temp_ind_32' = rc.cp
         /\ details' = r.d
         /\ phase' = ph /\ before' = ind /\ exhausted' = r.ex
         /\ pc' = next
         /\ UNCHANGED <<result, raised>>

\* tags[ind:] is handed to the segmenter
EnterSegment(i) ==
    /\ seg' = Units(tags, i)
    /\ visited' = <<>> /\ prakarans' = <<>> /\ prev' = <<>>
    /\ tahar' = <<>> /\ temp_flag_tahar' = FALSE /\ tahar_src' = <<>>

\* scrape_case_details_generic (or the standalone program's own loop) takes
\* the next invocation and routes it by year
Start ==
    /\ pc = "idle" /\ work # <<>>
    /\ LET it == Head(work)
           m == IF it.standalone THEN S2061
                ELSE determine_scraper_method(it.sal, it.at)
       IN /\ work' = Tail(work)
          /\ url' = it.url /\ sal' = it.sal /\ today' = it.at
          /\ use_saved' = it.use_saved /\ fails' = it.fails
          /\ method' = m
          /\ selected' = Append(selected, [sal |-> it.sal, year |-> it.year,
                                           today |-> it.at, method |-> m])
          /\ IF m = ValueError
             THEN Return("False", FALSE)
             ELSE /\ pc' = "precheck"
                  /\ UNCHANGED <<result, raised>>
    /\ phase' = "none" /\ before' = 0 /\ exhausted' = FALSE
    /\ UNCHANGED <<scraper, web, storeVars, tags, cursorVars, details, flagVars,
                   listVars, segVars>>

\* the first statement of an extractor: the URL lookup in cases, or in 2073+
\* a request to the URL
Precheck ==
    /\ pc = "precheck"
    /\ IF method = M2073
       THEN /\ fetches' = fetches + 1
            /\ IF fails > 0
               THEN fails' = fails - 1 /\ Return("False", FALSE)
               ELSE pc' = "soup" /\ UNCHANGED <<fails, result, raised>>
       ELSE /\ IF Exists(cases, url)
               THEN Return("True", FALSE)
               ELSE pc' = "soup" /\ UNCHANGED <<result, raised>>
            /\ UNCHANGED <<fetches, fails>>
    /\ UNCHANGED <<scraper, work, web, url, sal, today, method, use_saved, selected,
                   saved, slept, cases, seq_id, tags, cursorVars, details,
                   flagVars, listVars, segVars, histVars>>

\* return_soup (the standalone program makes one plain request), then
\* tags = div_tag.find_all(['h1', 'p']) when the page has the detail div
Soup ==
    /\ pc = "soup"
    /\ LET r == IF method = S2061
                THEN [soup |-> web[url], ok |-> fails = 0, requests |-> 1,
                      sleeps |-> <<>>, store |-> saved]
                ELSE return_soup(url, sal, use_saved, saved, web[url], fails)
       IN /\ saved' = r.store
          /\ fetches' = fetches + r.requests
          /\ slept' = slept \o r.sleeps
          /\ fails' = IF fails > r.requests THEN fails - r.requests ELSE 0
          /\ IF ~r.ok
             THEN /\ Return("False", FALSE)
                  /\ UNCHANGED <<tags, cursorVars, details>>
             ELSE /\ tags' = r.soup.tags
                  /\ ind' = 0 /\ temp_ind_32' = 0
                  /\ details' = EmptyDetails
                  /\ pc' = IF r.soup.div THEN "court" ELSE "save"
                  /\ UNCHANGED <<result, raised>>
    /\ UNCHANGED <<scraper, work, web, url, sal, today, method, use_saved, selected,
                   cases, seq_id, flagVars, listVars, segVars, histVars>>

Court ==
    /\ pc = "court"
    /\ LET r == CourtPhase(method, tags, ind, details)
       IN Scanned("court", r, AfterScan(method, r.ind, temp_ind_32, N), "judges")
    /\ UNCHANGED <<scraper, work, web, callVars, storeVars, tags, flagVars, listVars,
                   segVars>>

Judges ==
    /\ pc = "judges"
    /\ LET r == JudgesPhase(method, tags, ind, details)
       IN /\ Scanned("judges", r, AfterScan(method, r.ind, temp_ind_32, N),
                     IF method \in {M2015, M2045} THEN "lookahead"
                     ELSE IF method \in {M2062, M2073} THEN "caseno"
                     ELSE "pre")
          /\ faisla_miti_before_case_no' = r.flag
    /\ bisaya' = FALSE /\ subject_before_case_no' = FALSE
    /\ count_how_many' = 0 /\ multi' = FALSE /\ temp_flag' = FALSE
    /\ case_no' = <<>> /\ appellant' = <<>> /\ opposition' = <<>>
    /\ UNCHANGED <<scraper, work, web, callVars, storeVars, tags, segVars>>

\* 2062-2072 and 2073+: the line after the judges
CaseNo ==
    /\ pc = "caseno"
    /\ IF method = M2062
       THEN LET r == CaseNo2062(method, tags, ind, temp_ind_32, details,
                                faisla_miti_before_case_no)
            IN /\ Scanned("caseno", r, RevertOrCommit(r.ind, temp_ind_32, N), "pre")
               /\ subject_before_case_no' = r.flag
               /\ UNCHANGED <<bisaya, temp_flag>>
       ELSE LET r == CaseDetails2073(method, tags, ind, details)
            IN /\ Scanned("caseno", r, RevertIfPast(r.ind, temp_ind_32, N),
                          IF r.flag THEN "multi" ELSE "pre")
               /\ bisaya' = r.flag
               /\ temp_flag' = r.flag
               /\ UNCHANGED subject_before_case_no
    /\ UNCHANGED <<scraper, work, web, callVars, storeVars, tags,
                   faisla_miti_before_case_no, count_how_many, multi,
                   listVars, segVars>>

\* the lookaheads that decide the branch of the party phase: subject before
\* the parties (2015-2044, 2045-2050), number of versus lines (2062-2072)
Lookahead ==
    /\ pc = "lookahead"
    /\ IF method = M2062
       THEN /\ count_how_many' = CountVersus(method, tags, ind)
            /\ multi' = (count_how_many' > 1)
            /\ pc' = "petitioner"
            /\ phase' = "lookahead" /\ before' = ind /\ exhausted' = FALSE
            /\ UNCHANGED <<cursorVars, details, bisaya, result, raised>>
       ELSE LET r == IF method = M2015
                     THEN Lookahead2015(method, tags, ind, details)
                     ELSE Lookahead2045(method, tags, ind, details)
                rc == IF method = M2015 THEN [ind |-> ind, cp |-> temp_ind_32]
                      ELSE RevertOrCommit(r.ind, temp_ind_32, N)
            IN /\ Scanned("lookahead", r, rc,
                          IF method = M2015 \/ r.flag THEN "pre" ELSE "petitioner")
               /\ bisaya' = r.flag
               /\ UNCHANGED <<count_how_many, multi>>
    /\ UNCHANGED <<scraper, work, web, callVars, storeVars, tags,
                   faisla_miti_before_case_no, subject_before_case_no,
                   temp_flag, listVars, segVars>>

\* the scan between the judges and the parties
PreParty ==
    /\ pc = "pre"
    /\ LET r == IF method = M2015
                THEN PreParty2015(method, tags, ind, temp_ind_32, details, bisaya)
                ELSE IF method = M2062
                THEN Pre2062(method, tags, ind, temp_ind_32, details,
                             subject_before_case_no)
                ELSE IF method \in {M2051, S2061}
                THEN Subject2051(method, tags, ind, temp_ind_32, details)
                ELSE SubjectContains(method, tags, ind, temp_ind_32, details)
           rc == IF method \in {M2051, S2061}
                 THEN RevertOnly(r.ind, temp_ind_32, N)
                 ELSE RevertOrCommit(r.ind, temp_ind_32, N)
       IN Scanned("pre", r, rc,
                  IF method = M2062 THEN "lookahead" ELSE "petitioner")
    /\ UNCHANGED <<scraper, work, web, callVars, storeVars, tags, flagVars, listVars,
                   segVars>>

\* the petitioner scan, single or as one round of the 2062-2072 loop
Petitioner ==
    /\ pc = "petitioner"
    /\ LET p == PartyScan(method, KEYWORDS_3(method), tags, ind)
           d1 == IF p.found /\ ~multi
                 THEN [details EXCEPT !.petitioner = Str(p.val)] ELSE details
       IN /\ Scanned("petitioner", Scan(p.ind, d1, p.ex, p.err),
                     AfterScan(method, p.ind, temp_ind_32, N), "respondent")
          /\ appellant' = IF p.found /\ multi /\ ~p.err
                          THEN Append(appellant, p.val) ELSE appellant
    /\ UNCHANGED <<scraper, work, web, callVars, storeVars, tags, flagVars, case_no,
                   opposition, segVars>>

\* the respondent scan; the last round of the 2062-2072 loop also collects
\* the case numbers and writes the three lists
Respondent ==
    /\ pc = "respondent"
    /\ LET p == PartyScan(method, KEYWORDS_4(method), tags, ind)
           op1 == IF p.found /\ multi THEN Append(opposition, p.val)
                  ELSE opposition
           last == multi /\ count_how_many = 1
           cn1 == IF last THEN CollectCaseNo2062(method, tags) ELSE case_no
           d1 == IF multi
                 THEN IF last
                      THEN [details EXCEPT !.case_no = List(cn1),
                                           !.petitioner = List(appellant),
                                           !.respondent = List(op1)]
                      ELSE details
                 ELSE IF p.found
                      THEN [details EXCEPT !.respondent = Str(p.val)]
                      ELSE details
           rc == AfterScan(method, p.ind, temp_ind_32, N)
           next == IF multi /\ ~last THEN "petitioner"
                   ELSE IF method = M2015 \/ (method = M2045 /\ ~bisaya)
                   THEN "post" ELSE "segment"
       IN /\ Scanned("respondent", Scan(p.ind, d1, p.ex, p.err), rc, next)
          /\ IF p.err THEN UNCHANGED <<opposition, case_no, count_how_many, segVars>>
             ELSE /\ opposition' = op1
                  /\ case_no' = cn1
                  /\ count_how_many' = IF multi THEN count_how_many - 1
                                       ELSE count_how_many
                  /\ IF next = "segment" THEN EnterSegment(rc.ind)
                     ELSE UNCHANGED segVars
    /\ UNCHANGED <<scraper, work, web, callVars, storeVars, tags, bisaya,
                   faisla_miti_before_case_no, subject_before_case_no, multi,
                   temp_flag, appellant>>

\* the scan between the parties and the citations (2015-2044, 2045-2050)
PostParty ==
    /\ pc = "post"
    /\ LET r == IF method = M2015
                THEN PostParty2015(method, tags, ind, temp_ind_32, details, bisaya)
                ELSE SubjectContains(method, tags, ind, temp_ind_32, details)
           rc == RevertOrCommit(r.ind, temp_ind_32, N)
       IN /\ Scanned("post", r, rc, "segment")
          /\ EnterSegment(rc.ind)
    /\ UNCHANGED <<scraper, work, web, callVars, storeVars, tags, flagVars, listVars>>

\* 2073+: one round of the repeating loop, or the statement after the loop
MultiParty ==
    /\ pc = "multi"
    /\ IF temp_flag /\ ind < N
       THEN LET r == MultiIter2073(method, tags, ind, case_no, appellant, opposition)
            IN IF r.err
               THEN /\ Return("False", TRUE)
                    /\ UNCHANGED <<cursorVars, details, temp_flag, listVars,
                                   segVars, histVars>>
               ELSE /\ ind' = r.ind
                    /\ case_no' = r.case_no
                    /\ appellant' = r.appellant
                    /\ opposition' = r.opposition
                    /\ temp_flag' = ~r.ended
                    /\ details' = IF r.ended
                                  THEN [details EXCEPT
                                          !.case_no = List(r.case_no),
                                          !.petitioner = List(r.appellant),
                                          !.respondent = List(r.opposition)]
                                  ELSE details
                    /\ UNCHANGED <<pc, result, raised, temp_ind_32, segVars,
                                   histVars>>
       ELSE LET rc == RevertOrCommit(ind, temp_ind_32, N)
            IN /\ ind' = rc.ind /\ temp_ind_32' = rc.cp
               /\ phase' = "multi" /\ before' = temp_ind_32
               /\ exhausted' = (ind >= N)
               /\ pc' = "segment"
               /\ EnterSegment(rc.ind)
               /\ UNCHANGED <<details, temp_flag, listVars, result, raised>>
    /\ UNCHANGED <<scraper, work, web, callVars, storeVars, tags, bisaya,
                   faisla_miti_before_case_no, subject_before_case_no,
                   count_how_many, multi>>

\* one text of tags[ind:] goes through the segmenter
SegmentStep ==
    /\ pc = "segment" /\ seg # <<>>
    /\ LET u == Head(seg)
           st == SegUnit(method, SegState(prakarans, prev, tahar, temp_flag_tahar), u)
       IN /\ seg' = Tail(seg)
          /\ visited' = Append(visited, u)
          /\ prakarans' = st.prakarans
          /\ prev' = st.prev
          /\ tahar' = st.tahar
          /\ temp_flag_tahar' = st.temp_flag_tahar
          /\ tahar_src' = IF Len(st.tahar) > Len(tahar)
                          THEN Append(tahar_src, u.src) ELSE tahar_src
    /\ UNCHANGED <<scraper, work, web, pc, callVars, result, raised, storeVars, tags,
                   cursorVars, details, flagVars, listVars, histVars>>

\* details["प्रकरण"], details["ठहर"], the data dictionary and save_to_sqlite
Save ==
    /\ \/ pc = "segment" /\ seg = <<>>
       \/ pc = "save"
    /\ details' = IF pc = "segment"
                  THEN [details EXCEPT !.prakaran = List(prakarans),
                                       !.thahar = List(tahar)]
                  ELSE details
    /\ LET w == save_to_sqlite(cases, seq_id, BuildData(url, sal, details'))
       IN cases' = w.rows /\ seq_id' = w.sq
    /\ Return("True", FALSE)
    /\ UNCHANGED <<scraper, work, web, callVars, saved, fetches, slept, tags, cursorVars,
                   flagVars, listVars, segVars, histVars>>

Next ==
    \/ Start \/ Precheck \/ Soup
    \/ Court \/ Judges \/ CaseNo \/ Lookahead \/ PreParty
    \/ Petitioner \/ Respondent \/ PostParty \/ MultiParty
    \/ SegmentStep \/ Save

\* ------------------------------------------------------------------------
\* Specifications
\* ------------------------------------------------------------------------
\* block texts of the extraction runs: empty, bench, judge, order date, bare
\* petitioner label, respondent, versus, subject, citation, holding, and a
\* case-number code (a plain text to all extractors but 2062-2072)
EngineTexts ==
    { <<>>, <<"x", "ijlas">>, <<"mananiya", "x">>, <<"faisala", "miti">>,
      <<"nivedak">>, <<"vipakshi", "x">>, <<"viruddha">>, <<"vishaya", "x">>,
      <<"(prakaran", "x">>, <<"faisala">>, <<"WO", "x">> }

\* the blocks: one per text, and a plain paragraph followed by a list of two
\* items, the first a holding token
EngineBlocks ==
    {Blk(t) : t \in EngineTexts} \cup {BlkLi(<<"x">>, << <<"adesh">>, <<"y">> >>)}

EnginePages ==
    {Page(tg) : tg \in SeqsUpTo(EngineBlocks, MaxLen)} \cup {NoDetail}

\* every extractor of Kanun_Patrika_Scrapper.py on every page of at most
\* MaxLen blocks
Init ==
    \E m \in EraMethods, page \in EnginePages :
        Idle(<<CallOf(m, U1)>>, [u \in {U1} |-> page])

Spec == Init /\ [][Next]_vars

\* ------------------------------------------------------------------------
\* Year routing runs: two calls of scrape_case_details_generic, each with a
\* year at or next to an end of a range (or no year) and on a given day
\* ------------------------------------------------------------------------
YearSamples ==
    {2014, 2015, 2044, 2045, 2050, 2051, 2061, 2062, 2072, 2073,
     ThisYear - 1, ThisYear, ThisYear + 1}

\* the sal arguments: each year in Devanagari and in ASCII digits, a missing
\* year and two strings that are not numbers
SalSamples ==
    {[sal |-> Encode(y, g), year |-> y] : y \in YearSamples, g \in {Devanagari, Ascii}}
    \cup {[sal |-> <<>>, year |-> -1], [sal |-> <<"x">>, year |-> -1],
          [sal |-> <<"d2", "0", "x", "5">>, year |-> -1]}

Dates == {ThisYear, ThisYear + 1}

RoutingPage == Page(<<Blk(<<"vishaya", "x">>), Blk(<<"nivedak", "x">>)>>)

InitSel ==
    \E a \in SalSamples, b \in SalSamples, d1 \in Dates, d2 \in Dates :
        /\ d1 <= d2
        /\ Idle(<<Item(U1, a.sal, a.year, d1, 0, FALSE),
                  Item(U2, b.sal, b.year, d2, 0, FALSE)>>,
                [u \in {U1, U2} |-> RoutingPage])

SpecSel == InitSel /\ [][Next]_vars

\* ------------------------------------------------------------------------
\* Scenario runs: the eight blocks of the end-to-end scenario, and every
\* document made of some of them in the same order, under every extractor
\* ------------------------------------------------------------------------
ScenarioA ==
    << Blk(<<"Supreme", "ijlas">>), Blk(<<"mananiya", "X">>),
       Blk(<<"nivedak", "Alice">>), Blk(<<"vipakshi", "Bob">>),
       Blk(<<"vishaya", "land", "dispute">>), Blk(<<"(prakaran", "1">>),
       Blk(<<"faisala">>), Blk(<<"affirmed">>) >>

\* the blocks of ScenarioA at the positions in keep
Keep(keep) ==
    LET F[k \in 0..Len(ScenarioA)] ==
            IF k = 0 THEN <<>>
            ELSE IF k \in keep THEN Append(F[k - 1], ScenarioA[k]) ELSE F[k - 1]
    IN  F[Len(ScenarioA)]

InitA ==
    \E m \in Methods, keep \in SUBSET (1..Len(ScenarioA)) :
        Idle(<<CallOf(m, U1)>>, [u \in {U1} |-> Page(Keep(keep))])

SpecA == InitA /\ [][Next]_vars

\* ------------------------------------------------------------------------
\* Persistence runs: two calls in a row, on the same URL or on two
\* ------------------------------------------------------------------------
DbPages ==
    {NoDetail, Page(<<>>), Page(<<Blk(<<"vishaya", "x">>), Blk(<<"nivedak", "x">>)>>),
     Page(<<Blk(<<"x", "ijlas">>), Blk(<<"(prakaran", "x">>), Blk(<<"faisala">>)>>)}

InitDb ==
    \E m1 \in Methods, m2 \in Methods, u1 \in {U1, U2}, u2 \in {U1, U2},
       p1 \in DbPages, p2 \in DbPages :
        Idle(<<CallOf(m1, u1), CallOf(m2, u2)>>,
             [u \in {U1, U2} |-> IF u = U1 THEN p1 ELSE p2])

SpecDb == InitDb /\ [][Next]_vars

\* ------------------------------------------------------------------------
\* Segmenter runs: documents of plain, "§", citation, holding, order-date and
\* subject lines and a paragraph with a list, under every extractor
\* ------------------------------------------------------------------------
SegTexts ==
    { <<"x">>, <<"section", "s">>, <<"(prakaran", "1">>, <<"faisala">>,
      <<"faisala", "miti">>, <<"vishaya", "v">> }

SegBlocks ==
    {Blk(t) : t \in SegTexts} \cup {BlkLi(<<"z">>, << <<"adesh">>, <<"y">> >>)}

InitSeg ==
    \E m \in Methods, tg \in SeqsUpTo(SegBlocks, MaxLen) :
        Idle(<<CallOf(m, U1)>>, [u \in {U1} |-> Page(tg)])

SpecSeg == InitSeg /\ [][Next]_vars

\* ------------------------------------------------------------------------
\* Consolidated-case runs: a first line (case-number code, petitioner or
\* order date) followed by versus lines, party lines, case-number codes,
\* citation lines with and without a code, and a holding token
\* ------------------------------------------------------------------------
MultiHeads == { <<"WO", "x">>, <<"nivedak", "a">>, <<"faisala", "miti">> }

MultiTexts ==
    { <<"viruddha">>, <<"WO", "y">>, <<"nivedak", "a">>, <<"vipakshi", "b">>,
      <<"(prakaran", "WO">>, <<"(prakaran", "x">>, <<"faisala">> }

MultiDocs ==
    {<<Blk(h)>> \o tail :
        h \in MultiHeads, tail \in SeqsUpTo({Blk(t) : t \in MultiTexts}, MaxLen)}

InitMulti ==
    \E m \in EraMethods, tg \in MultiDocs :
        Idle(<<CallOf(m, U1)>>, [u \in {U1} |-> Page(tg)])

SpecMulti == InitMulti /\ [][Next]_vars

\* ------------------------------------------------------------------------
\* Empty-block runs: one extractor is called on a document and then on the
\* same document without its blocks of empty text
\* ------------------------------------------------------------------------
DropTexts ==
    { <<>>, <<"x", "ijlas">>, <<"mananiya", "x">>, <<"nivedak">>,
      <<"vipakshi", "x">>, <<"faisala", "miti">>, <<"y">> }

\* the blocks of tg whose text is not empty
Drop(tg) == SelectSeq(tg, LAMBDA b : b.text # <<>>)

InitDrop ==
    \E m \in EraMethods, tg \in SeqsUpTo({Blk(t) : t \in DropTexts}, MaxLen) :
        Idle(<<CallOf(m, U1), CallOf(m, U2)>>,
             [u \in {U1, U2} |-> IF u = U1 THEN Page(tg) ELSE Page(Drop(tg))])

SpecDrop == InitDrop /\ [][Next]_vars

\* ------------------------------------------------------------------------
\* Network runs: two calls of one extractor, on the same URL or on two, each
\* with some number of failing requests ahead, the second with or without
\* use_saved
\* ------------------------------------------------------------------------
NetPages ==
    { NoDetail, Page(<<>>),
      Page(<<Blk(<<"x", "ijlas">>), Blk(<<"mananiya", "x">>),
             Blk(<<"faisala", "miti">>), Blk(<<"nivedak", "a">>),
             Blk(<<"viruddha">>), Blk(<<"vipakshi", "b">>),
             Blk(<<"(prakaran", "x">>), Blk(<<"faisala">>)>>),
      Page(<<Blk(<<"vishaya", "v">>), Blk(<<"WO", "x">>),
             Blk(<<"nivedak", "a">>), Blk(<<"vipakshi", "b">>)>>) }

InitNet ==
    \E m \in EraMethods, u2 \in {U1, U2}, us \in BOOLEAN, page \in NetPages,
       f1 \in 0..(max_retries + 1), f2 \in 0..(max_retries + 1) :
        Idle(<<[CallOf(m, U1) EXCEPT !.fails = f1],
               [CallOf(m, u2) EXCEPT !.fails = f2, !.use_saved = us]>>,
             [u \in {U1, U2} |-> page])

SpecNet == InitNet /\ [][Next]_vars

\* ------------------------------------------------------------------------
\* Pipeline runs: run_scraper from the search page on: the discovery of the
\* case URLs, the first pass over them and the retry pass; a call of the
\* extractor has none or more than max_retries failing requests ahead
\* ------------------------------------------------------------------------
\* search_url(mudda_type, sal): it ends with "#" and with no number
SearchUrl == [path |-> "search#", num |-> ""]

\* the pagination link of the search page, "...advance_search/...=20"
MoreUrl == [path |-> "advance_search=20", num |-> ""]

\* href="#" and href="javascript:void(0)"; NoHref: an anchor without href
HashUrl == [path |-> "#", num |-> ""]
JsUrl == [path |-> "javascript:void(0)", num |-> ""]
NoHref == [path |-> "", num |-> ""]

\* "#" in href
HasHash(h) == h.path \in {"#", "search#"}

\* a page of search results: no detail div, and its anchors in document order
SearchPage(links) == [div |-> FALSE, tags |-> <<>>, anchors |-> links]

\* soup.find_all('a'), each anchor given by its href
Anchors(pg) == IF "anchors" \in DOMAIN pg THEN pg.anchors ELSE <<>>

\* list(dict.fromkeys(li)): the first occurrence of each entry, in order
Dedup(li) ==
    LET keep == {k \in DOMAIN li : \A j \in 1..(k - 1) : li[j] # li[k]}
    IN  [r \in 1..Cardinality(keep) |->
            li[CHOOSE k \in keep : Cardinality({x \in keep : x <= k}) = r]]

\* the while loop of from_each_page: the href of the anchor after each anchor
\* whose href holds "#"
RECURSIVE Followers(_, _)
Followers(links, i) ==
    IF i > Len(links) THEN <<>>
    ELSE IF links[i] # NoHref /\ HasHash(links[i])
    THEN (IF i + 1 <= Len(links) /\ links[i + 1] # NoHref
          THEN <<links[i + 1]>> ELSE <<>>) \o Followers(links, i + 1)
    ELSE Followers(links, i + 1)

\* from_each_page: if(len(li) > 1): unique_list = list(dict.fromkeys(li))
from_each_page(links) ==
    LET li == Followers(links, 1)
    IN  IF Len(li) > 1 THEN Dedup(li) ELSE <<>>

\* get_all_pages: the search page through return_soup, its links, and when
\* it has "javascript:void(0)" and a pagination link the pagination pages
\* through return_soup as well; reads: what return_soup gave for each URL
get_all_pages(initial_url, s, us, store, pages, nf) ==
    LET r0 == return_soup(initial_url, s, us, store, pages[initial_url], nf)
        links == Anchors(r0.soup)
        all_links == SelectSeq(links, LAMBDA h : h # NoHref)
        other_pages == SelectSeq(all_links, LAMBDA h : h = MoreUrl)
        paged == (\E k \in DOMAIN all_links : all_links[k] = JsUrl)
                     /\ other_pages # <<>>
        left == IF nf > r0.requests THEN nf - r0.requests ELSE 0
        r1 == return_soup(MoreUrl, s, us, r0.store, pages[MoreUrl], left)
        unique_list2 == IF r1.ok THEN from_each_page(Anchors(r1.soup)) ELSE <<>>
    IN  IF ~r0.ok
        THEN [urls |-> <<>>, store |-> r0.store, requests |-> r0.requests,
              sleeps |-> r0.sleeps, reads |-> <<>>]
        ELSE IF ~paged
        THEN [urls |-> Dedup(from_each_page(links)), store |-> r0.store,
              requests |-> r0.requests, sleeps |-> r0.sleeps,
              reads |-> <<[url |-> initial_url, soup |-> r0.soup]>>]
        ELSE [urls |-> Dedup(from_each_page(links) \o unique_list2),
              store |-> r1.store, requests |-> r0.requests + r1.requests,
              sleeps |-> r0.sleeps \o r1.sleeps,
              reads |-> <<[url |-> initial_url, soup |-> r0.soup]>>
                          \o (IF r1.ok THEN <<[url |-> MoreUrl, soup |-> r1.soup]>>
                              ELSE <<>>)]

\* save_failed_links that records nothing
save_failed_links_none(rows, failed_links) == rows

\* save_failed_links: one row of the table failed_links for each link
save_failed_links(rows, failed_links) == rows \o failed_links

\* run_scraper about to call get_all_pages; fail1 and fail2 are the URLs
\* whose requests fail in the first and in the retry pass, find_fails the
\* number of failing requests ahead of the discovery
RunStart(item, find_fails, fail1, fail2, us) ==
    [stage |-> "discover", item |-> item, find_fails |-> find_fails,
     fail1 |-> fail1, fail2 |-> fail2, use_saved |-> us,
     case_urls |-> <<>>, reads |-> <<>>, attempts |-> <<>>,
     i |-> 1, waiting |-> FALSE,
     successful_count |-> 0, counted |-> <<>>, failed_links |-> <<>>,
     still_failed |-> <<>>, log |-> <<>>]

\* case_urls = self.get_all_pages(search_url, mudda_type, sal, use_saved);
\* if not case_urls: return; successful_count = 0; failed_links = []
RunDiscover ==
    /\ pc = "idle" /\ work = <<>> /\ scraper.stage = "discover"
    /\ LET g == get_all_pages(SearchUrl, scraper.item.sal, scraper.use_saved,
                              saved, web, scraper.find_fails)
       IN /\ saved' = g.store
          /\ fetches' = fetches + g.requests
          /\ slept' = slept \o g.sleeps
          /\ scraper' = [scraper EXCEPT
                           !.case_urls = g.urls, !.reads = g.reads,
                           !.stage = IF g.urls = <<>> THEN "done" ELSE "first"]
    /\ UNCHANGED <<work, web, pc, callVars, result, raised, cases, seq_id, tags,
                   cursorVars, details, flagVars, listVars, segVars, histVars>>

\* the retry loop over all of case_urls
RunList_all(r) == r.case_urls

\* the list the current loop of run_scraper goes over
RunList(r) == IF r.stage = "first" THEN r.case_urls ELSE r.failed_links

\* success = self.scrape_case_details_generic(url, mudda_type, sal, use_saved)
\* in the first loop, and with use_saved=False in the retry loop
RunCall ==
    /\ pc = "idle" /\ work = <<>>
    /\ scraper.stage \in {"first", "retry"} /\ ~scraper.waiting
    /\ LET u == RunList(scraper)[scraper.i]
           us == scraper.stage = "first" /\ scraper.use_saved
           down == IF scraper.stage = "first" THEN scraper.fail1 ELSE scraper.fail2
       IN /\ work' = << [scraper.item EXCEPT
                           !.url = u, !.use_saved = us,
                           !.fails = IF u \in down THEN max_retries + 1 ELSE 0] >>
          /\ scraper' = [scraper EXCEPT
                           !.waiting = TRUE,
                           !.attempts = Append(@, [url |-> u, stage |-> scraper.stage,
                                                   use_saved |-> us])]
    /\ UNCHANGED <<web, pc, callVars, result, raised, storeVars, tags,
                   cursorVars, details, flagVars, listVars, segVars, histVars>>

\* the rest of the loop body: the count or the list of failures, the sleep,
\* and after the last URL of a loop the retry loop or the end of run_scraper
RunAccount ==
    /\ pc = "idle" /\ work = <<>>
    /\ scraper.stage \in {"first", "retry"} /\ scraper.waiting
    /\ LET u == RunList(scraper)[scraper.i]
           last == scraper.i = Len(RunList(scraper))
           r == IF result = "True"
                THEN [scraper EXCEPT !.successful_count = @ + 1,
                                     !.counted = Append(@, u)]
                ELSE IF scraper.stage = "first"
                THEN [scraper EXCEPT !.failed_links = Append(@, u)]
                ELSE [scraper EXCEPT !.still_failed = Append(@, u)]
       IN /\ scraper' =
                IF ~last THEN [r EXCEPT !.waiting = FALSE, !.i = @ + 1]
                ELSE IF r.stage = "first"
                THEN IF r.failed_links # <<>>
                     THEN [r EXCEPT !.waiting = FALSE, !.i = 1, !.stage = "retry"]
                     ELSE [r EXCEPT !.waiting = FALSE, !.stage = "done"]
                ELSE [r EXCEPT !.waiting = FALSE, !.stage = "done",
                               !.log = IF r.still_failed # <<>>
                                       THEN save_failed_links(@, r.still_failed)
                                       ELSE @]
          /\ slept' = IF scraper.stage = "retry" \/ ~scraper.use_saved
                      THEN Append(slept, 2) ELSE slept
    /\ UNCHANGED <<work, web, pc, callVars, result, raised, saved, fetches,
                   cases, seq_id, tags, cursorVars, details, flagVars,
                   listVars, segVars, histVars>>

NextRun == Next \/ RunDiscover \/ RunCall \/ RunAccount

\* the case links of a page of search results: none to MaxUrls links, a link
\* may come twice
RunUrls == SeqsUpTo({U1, U2}, MaxUrls)

\* the anchors of a page of search results: href="#" before each case link
RECURSIVE ResultLinks(_)
ResultLinks(L) ==
    IF L = <<>> THEN <<>> ELSE <<HashUrl, Head(L)>> \o ResultLinks(Tail(L))

\* the sal of a run: a year of each extractor, or the current year, which
\* determine_scraper_method rejects
RunItems ==
    {CallOf(m, U1) : m \in EraMethods}
        \cup {Item(U1, Encode(ThisYear, Ascii), ThisYear, ThisYear, 0, FALSE)}

\* the site: a full document and a consolidated case, the search page with
\* or without the link to a second page of results, and that second page
RunWeb(L, more) ==
    [u \in {U1, U2, SearchUrl, MoreUrl} |->
        IF u = U1
        THEN Page(<<Blk(<<"x", "ijlas">>), Blk(<<"mananiya", "x">>),
                    Blk(<<"faisala", "miti">>), Blk(<<"nivedak", "a">>),
                    Blk(<<"viruddha">>), Blk(<<"vipakshi", "b">>),
                    Blk(<<"(prakaran", "x">>), Blk(<<"faisala">>)>>)
        ELSE IF u = U2
        THEN Page(<<Blk(<<"vishaya", "v">>), Blk(<<"WO", "x">>),
                    Blk(<<"nivedak", "a">>), Blk(<<"vipakshi", "b">>)>>)
        ELSE IF u = SearchUrl
        THEN SearchPage(ResultLinks(L) \o (IF more THEN <<JsUrl, MoreUrl>> ELSE <<>>))
        ELSE SearchPage(ResultLinks(<<U2, U1>>))]

InitRun ==
    \E item \in RunItems, L \in RunUrls, more \in BOOLEAN, us \in BOOLEAN,
       find_fails \in {0, max_retries + 1},
       fail1 \in SUBSET {U1, U2}, fail2 \in SUBSET {U1, U2} :
        /\ scraper = RunStart(item, find_fails, fail1, fail2, us)
        /\ IdleState(<<>>, RunWeb(L, more))

SpecRun == InitRun /\ [][NextRun]_vars

\* ------------------------------------------------------------------------
\* Fair extraction runs: a consolidated case of two rounds with a subject
\* line first and a citation last, and every document made of some of its
\* blocks in the same order, under every era extractor.  A call that has
\* started goes on: the interpreter does not stop between two statements
\* ------------------------------------------------------------------------
LiveDoc ==
    << Blk(<<"vishaya", "v">>), Blk(<<"WO", "x">>), Blk(<<"nivedak", "a">>),
       Blk(<<"vipakshi", "b">>), Blk(<<"WO", "y">>), Blk(<<"(prakaran", "1">>) >>

InitLive ==
    \E m \in EraMethods, keep \in SUBSET (1..Len(LiveDoc)) :
        Idle(<<CallOf(m, U1)>>,
             [u \in {U1} |->
                 Page([k \in 1..Cardinality(keep) |->
                         LiveDoc[CHOOSE j \in keep :
                                    Cardinality({x \in keep : x <= j}) = k]])])

SpecLive == InitLive /\ [][Next]_vars /\ WF_vars(Next)

\* ------------------------------------------------------------------------
\* Properties
\* ------------------------------------------------------------------------
\* C1: checkpoint-revert law: when a scan phase has reached the end of tags
\* without finding its keyword, ind is where it was before the phase
C1_CheckpointRevert ==
    (phase # "none" /\ exhausted) => ind = before

\* C2: no extractor raises on a malformed document (no read of tags at an
\* index >= n), and every finished extraction has left a record
C2_NeverRaises ==
    /\ ~raised
    /\ (pc = "idle" /\ method \in Methods) => Exists(cases, url)

\* C3: a document whose detail block holds no h1/p block yields a record with
\* every extracted field at its default: "N/A" for court, order date, case
\* number, subject, petitioner and respondent, [] for judges, citations and
\* holding
C3_EmptyDocumentDefaults ==
    (pc = "idle" /\ result = "True" /\ method \in Methods
       /\ web[url].div /\ web[url].tags = <<>>)
    => /\ ~raised
       /\ \E r \in cases :
            /\ r.link = url
            /\ r.data.court = NA /\ r.data.order_date = NA
            /\ r.data.case_no = NA /\ r.data.subject = NA
            /\ r.data.petitioner = NA /\ r.data.respondent = NA
            /\ r.data.judges = Json(<<>>) /\ r.data.prakaran = Json(<<>>)
            /\ r.data.thahar = Json(<<>>)

\* C4: a call of scrape_case_details_generic whose year lies in none of the
\* ranges 2015-2044, 2045-2050, 2051-2061, 2062-2072, 2073 to the year before
\* the current one (or is missing or not a number) ends at once with False:
\* no extractor starts, nothing is fetched or saved, cases is not written
C4_UnsupportedYearRejected ==
    [][(/\ pc = "idle" /\ work # <<>> /\ ~Head(work).standalone
        /\ LET y == Head(work).year
           IN  ~(2015 <= y /\ y <= 2072) /\ ~(2073 <= y /\ y < Head(work).at))
       => (/\ pc' = "idle" /\ result' = "False" /\ ~raised'
           /\ method' = ValueError
           /\ fetches' = fetches /\ saved' = saved
           /\ cases' = cases /\ seq_id' = seq_id)]_vars

\* two calls have been rejected, one for a missing or non-numeric year and
\* one for a year outside the ranges, and nothing was fetched or written
C4_Witness ==
    /\ pc = "idle" /\ Len(selected) = 2 /\ result = "False"
    /\ selected[1].year = -1 /\ selected[1].method = ValueError
    /\ selected[2].year >= selected[2].today /\ selected[2].method = ValueError
    /\ fetches = 0 /\ cases = {} /\ saved = <<>>

\* C5 as stated: two selections for the same year have the same outcome,
\* whatever the state and the date
C5_SameYearSameOutcome ==
    \A i \in DOMAIN selected : \A j \in DOMAIN selected :
        selected[i].year = selected[j].year
        => selected[i].method = selected[j].method

\* C5: two selections for the same year have the same outcome when they are
\* made in the same current Nepali year, or when the year is before 2073
C5_SameYearSameDate ==
    \A i \in DOMAIN selected : \A j \in DOMAIN selected :
        (/\ selected[i].year = selected[j].year
         /\ \/ selected[i].today = selected[j].today
            \/ selected[i].year < 2073)
        => selected[i].method = selected[j].method

\* the same supported year before 2073 has been routed in two different
\* current years
C5_Witness ==
    /\ Len(selected) = 2
    /\ selected[1].year = selected[2].year
    /\ selected[1].year >= 2015 /\ selected[1].year < 2073
    /\ selected[1].today # selected[2].today
    /\ selected[1].method \in EraMethods

\* C6 as stated: both ends of each of the five ranges select the range's
\* extractor, the end of the last range being the current Nepali year
C6_EndpointsInclusive ==
    \A i \in DOMAIN selected :
        LET y == selected[i].year
            f == selected[i].method
        IN  /\ y \in {2015, 2044} => f = M2015
            /\ y \in {2045, 2050} => f = M2045
            /\ y \in {2051, 2061} => f = M2051
            /\ y \in {2062, 2072} => f = M2062
            /\ y \in {2073, selected[i].today} => f = M2073

\* C6: the ranges 2015-2044, 2045-2050, 2051-2061 and 2062-2072 include both
\* ends; the last range starts at 2073 and ends at the year before the
\* current Nepali year; every year selects the extractor of the one range it
\* lies in, and the current year and any other year select none
C6_RangesLastHalfOpen ==
    \A i \in DOMAIN selected :
        LET y == selected[i].year
            f == selected[i].method
        IN  /\ (2015 <= y /\ y <= 2044) <=> f = M2015
            /\ (2045 <= y /\ y <= 2050) <=> f = M2045
            /\ (2051 <= y /\ y <= 2061) <=> f = M2051
            /\ (2062 <= y /\ y <= 2072) <=> f = M2062
            /\ (2073 <= y /\ y <= selected[i].today - 1) <=> f = M2073
            /\ f \in EraMethods \cup {ValueError}

\* the two sides of the end of the last range have been routed: the year
\* before the current one to the 2073+ extractor, the current one to none
C6_Witness ==
    /\ Len(selected) = 2 /\ pc = "idle" /\ work = <<>>
    /\ selected[1].year = selected[1].today - 1 /\ selected[1].method = M2073
    /\ selected[2].year = selected[2].today /\ selected[2].method = ValueError

\* C7 as stated, for the two extractors that handle consolidated cases: with
\* one versus line before the first citation marker the petitioner and the
\* respondent are scalars; with two or more, the case numbers, petitioners
\* and respondents are lists of one length
C7_MultiPartyShape ==
    (pc = "idle" /\ result = "True" /\ method \in {M2062, M2073})
    => LET stop == First(tags, 0, {t \in Texts(tags) : StartsWith(KEYWORDS_2(method), t)})
           v == Cardinality({k \in 0..(stop - 1) :
                               Equals(KEYWORDS_9(method), T(tags, k))})
       IN  /\ v = 1 => /\ details.petitioner.k # "list"
                       /\ details.respondent.k # "list"
           /\ v >= 2 => /\ details.case_no.k = "list"
                        /\ details.petitioner.k = "list"
                        /\ details.respondent.k = "list"
                        /\ Len(details.case_no.v) = Len(details.petitioner.v)
                        /\ Len(details.petitioner.v) = Len(details.respondent.v)

\* C8: citation/holding overlap: a visited text (paragraph or list item) is
\* in tahar exactly when a holding token is at or before it in the visit
C8_HoldingOverlap ==
    /\ Len(tahar) = Len(tahar_src)
    /\ \A k \in DOMAIN visited :
          (\E r \in DOMAIN tahar :
              tahar_src[r] = visited[k].src /\ tahar[r] = visited[k].text)
          <=> (\E j \in 1..k : IsHoldingToken(visited[j].text))

\* a text, then the first holding token, then a list item have been visited
C8_Witness ==
    \E j \in DOMAIN visited : \E k \in DOMAIN visited :
        /\ 1 < j /\ j < k
        /\ IsHoldingToken(visited[j].text)
        /\ \A i \in 1..(j - 1) : ~IsHoldingToken(visited[i].text)
        /\ visited[k].li /\ ~IsHoldingToken(visited[k].text)
        /\ Len(tahar) = k - j + 1

\* C9 as stated: scenario A under the 2015-2044 extractor
C9_ScenarioA ==
    (method = M2015 /\ tags = ScenarioA /\ pc = "idle" /\ result = "True")
    => \E r \in cases :
         /\ r.data.court = Str(<<"Supreme", "ijlas">>)
         /\ r.data.judges = Json(<< <<"mananiya", "X">> >>)
         /\ r.data.petitioner = Str(<<"Alice">>)
         /\ r.data.respondent = Str(<<"Bob">>)
         /\ r.data.subject = Str(<<"vishaya", "land", "dispute">>)
         /\ r.data.prakaran = Json(<< <<"(prakaran", "1">>, <<"faisala">> >>)
         /\ r.data.thahar = Json(<< <<"faisala">>, <<"affirmed">> >>)

\* C9: scenario A under the 2015-2044 extractor: the petitioner and the
\* respondent are the whole lines, label included, and the citations are the
\* citation line alone
C9_ScenarioAWholeLines ==
    (method = M2015 /\ tags = ScenarioA /\ pc = "idle" /\ result = "True")
    => \E r \in cases :
         /\ r.data.court = Str(<<"Supreme", "ijlas">>)
         /\ r.data.judges = Json(<< <<"mananiya", "X">> >>)
         /\ r.data.petitioner = Str(<<"nivedak", "Alice">>)
         /\ r.data.respondent = Str(<<"vipakshi", "Bob">>)
         /\ r.data.subject = Str(<<"vishaya", "land", "dispute">>)
         /\ r.data.prakaran = Json(<< <<"(prakaran", "1">> >>)
         /\ r.data.thahar = Json(<< <<"faisala">>, <<"affirmed">> >>)

\* the 2015-2044 extractor has finished scenario A and saved its record
C9_Witness ==
    /\ method = M2015 /\ tags = ScenarioA /\ pc = "idle" /\ result = "True"
    /\ Cardinality(cases) = 1 /\ ~raised

\* C10 as stated: saving a record that cases already holds for the link
\* leaves cases as it was
C10_UpsertIdempotent ==
    [][(/\ seq_id' # seq_id
        /\ \E r \in cases : r.data = BuildData(url, sal, details'))
       => cases' = cases]_vars

\* C10: saving a record that cases already holds for the link leaves one row
\* for the link, with the same columns of the record, and no other row
\* changes; the row is a new one, under a new id
C10_UpsertKeepsRecord ==
    [][(/\ seq_id' # seq_id
        /\ \E r \in cases : r.data = BuildData(url, sal, details'))
       => (/\ {r.data : r \in cases'} = {r.data : r \in cases}
           /\ Cardinality(cases') = Cardinality(cases)
           /\ {r \in cases' : r.link # url} = {r \in cases : r.link # url}
           /\ \A r \in cases' : r.link = url =>
                 \A q \in cases : r.id > q.id)]_vars

\* the same URL has been extracted twice by the 2073+ extractor, which does
\* not look the URL up first, and both times the record was saved
C10_Witness ==
    /\ Len(selected) = 2 /\ pc = "idle" /\ result = "True"
    /\ selected[1].method = M2073 /\ selected[2].method = M2073
    /\ seq_id = 2 /\ Cardinality(cases) = 1

\* C11: dedup by URL in every era extractor: an extractor that starts on a
\* URL which cases already holds returns True at once: nothing is requested,
\* nothing is extracted, and cases is left as it is
C11_DedupSkips ==
    [][(pc = "precheck" /\ method \in EraMethods /\ Exists(cases, url))
       => (/\ pc' = "idle" /\ result' = "True" /\ ~raised'
           /\ fetches' = fetches /\ saved' = saved
           /\ cases' = cases /\ seq_id' = seq_id
           /\ details' = details /\ tags' = tags)]_vars

\* C12: cursor invariant: in the course of one extraction every change of ind
\* is an advance or a reset to temp_ind_32; temp_ind_32 never decreases, ind
\* is never below it, and temp_ind_32 is only ever set to the value ind has
\* reached
C12_CursorInvariant ==
    [][(pc \notin {"idle", "precheck", "soup"})
       => (/\ ind' >= ind \/ ind' = temp_ind_32
           /\ temp_ind_32' >= temp_ind_32
           /\ ind' >= temp_ind_32'
           /\ temp_ind_32' # temp_ind_32 => temp_ind_32' = ind')]_vars

\* a phase has moved the checkpoint forward, and a later scan that ran off
\* the end of tags has been reset to it
C12_Witness ==
    /\ pc \notin {"idle", "precheck", "soup"}
    /\ phase # "none" /\ exhausted
    /\ 0 < temp_ind_32 /\ temp_ind_32 < N
    /\ ind = temp_ind_32 /\ before = temp_ind_32

\* C13: a subject, petitioner or respondent phase of the single-party path
\* that records its field leaves ind just after the block it took the value
\* from, inside tags or at its end, and sets temp_ind_32 to ind; so also
\* when that block is the last one
C13_MatchCommits ==
    [][\A f \in {"subject", "petitioner", "respondent"} :
         (/\ pc \in {"pre", "post", "petitioner", "respondent"}
          /\ details'[f] # details[f] /\ details'[f].k = "str")
         => (/\ ind' > ind /\ ind' <= N
             /\ T(tags, ind' - 1) = details'[f].v
             /\ temp_ind_32' = ind')]_vars

\* C14: a scan phase that reaches the end of tags without its match writes
\* nothing to details; in particular a judges phase that finds no order-date
\* line writes no case number
C14_NoMatchNoWrite ==
    [][(/\ pc \in {"court", "judges", "caseno", "lookahead", "pre",
                   "petitioner", "respondent", "post"}
        /\ phase' = pc /\ exhausted')
       => details' = details]_vars

\* C15: segmenter flush rule: at a paragraph that contains "§", or starts
\* with a citation marker, or is a holding token, a non-empty prev becomes one
\* new entry of prakarans and an empty prev adds none, prev is empty
\* afterwards, and a paragraph that starts with a citation marker is an entry
\* of its own after it (a "§" paragraph or a holding token may be one too)
C15_FlushRule ==
    [][(/\ pc = "segment" /\ seg # <<>> /\ ~Head(seg).li
        /\ LET t == Head(seg).text
           IN  \/ HasSection(t) \/ StartsWith(KEYWORDS_2(method), t)
               \/ IsHoldingToken(t))
       => LET t == Head(seg).text
              flushed == IF prev # <<>> THEN Append(prakarans, prev)
                         ELSE prakarans
          IN  /\ prev' = <<>>
              /\ IF StartsWith(KEYWORDS_2(method), t)
                 THEN prakarans' = Append(flushed, t)
                 ELSE prakarans' \in {flushed, Append(flushed, t)}]_vars

\* C16: the segmenter drops no text: every non-empty paragraph or list item
\* it visits is added to prev, or becomes the last entry of prakarans, or is
\* appended to tahar
C16_NothingDropped ==
    [][(pc = "segment" /\ seg # <<>>)
       => LET t == Head(seg).text
          IN  /\ t # <<>>
              /\ \/ prev' = (IF prev # <<>> THEN prev \o t ELSE t)
                 \/ /\ Len(prakarans') > Len(prakarans)
                    /\ prakarans'[Len(prakarans')] = t
                 \/ tahar' = Append(tahar, t)]_vars

\* a segmenter run is over in which a paragraph and a list item were visited
\* and each of prev, prakarans and tahar has received text
C16_Witness ==
    /\ pc = "segment" /\ seg = <<>> /\ Len(visited) >= 3
    /\ \E k \in DOMAIN visited : visited[k].li
    /\ \E k \in DOMAIN visited : ~visited[k].li
    /\ prev # <<>> /\ prakarans # <<>> /\ tahar # <<>>

\* C17: segmenter output order: an entry of prakarans built from earlier
\* texts never follows an entry built from a later text, and the entries of
\* tahar are in the order of the visit.  The texts an entry is built from are
\* the visited texts that occur in it.
C17_OutputOrder ==
    LET Occurs(t, e) == \E i \in 0..(Len(e) - Len(t)) :
                            SubSeq(e, i + 1, i + Len(t)) = t
        Src(e) == {k \in DOMAIN visited : Occurs(visited[k].text, e)}
        Earlier(a, b) == a[1] < b[1] \/ (a[1] = b[1] /\ a[2] < b[2])
    IN  /\ \A p \in DOMAIN prakarans : \A q \in DOMAIN prakarans :
              (p < q /\ Src(prakarans[p]) # {} /\ Src(prakarans[q]) # {})
              => \E a \in Src(prakarans[p]) : \E b \in Src(prakarans[q]) : a <= b
        /\ \A p \in DOMAIN tahar_src : \A q \in DOMAIN tahar_src :
              p < q => Earlier(tahar_src[p], tahar_src[q])

\* C18: judges phase: when a non-empty line without a judge keyword follows
\* the start of the phase, the judges list is exactly the run of judge lines
\* before the first such line, and that line is recorded as the order date
\* when it has a holding keyword and a date marker, else as the case number
C18_JudgesRun ==
    [][(/\ pc = "judges" /\ phase' = "judges"
        /\ \E k \in ind..(N - 1) :
              T(tags, k) # <<>> /\ ~Contains(KEYWORDS_8(method), T(tags, k)))
       => LET e == SetMin({k \in ind..(N - 1) :
                     T(tags, k) # <<>> /\ ~Contains(KEYWORDS_8(method), T(tags, k))})
              S == {k \in ind..(e - 1) : T(tags, k) # <<>>}
              run == [r \in 1..Cardinality(S) |->
                        T(tags, CHOOSE k \in S : Cardinality({x \in S : x <= k}) = r)]
          IN  /\ GetJson(details'.judges) = Json(run)
              /\ IF Contains(KEYWORDS_7(method), T(tags, e)) /\ HasMiti(T(tags, e))
                 THEN details'.order_date = Str(T(tags, e))
                 ELSE details'.case_no = Str(T(tags, e))]_vars

\* C19: bare-label rule of the petitioner and respondent phases (single-party
\* path): when the first line with a party keyword is equal to the keyword,
\* the value recorded is the text of the next block, not the label, and ind
\* ends past both blocks; when it only contains the keyword, the value is the
\* line and ind ends past it
C19_BareLabel ==
    [][(/\ pc \in {"petitioner", "respondent"} /\ ~multi /\ phase' = pc
        /\ LET kws == IF pc = "petitioner" THEN KEYWORDS_3(method)
                      ELSE KEYWORDS_4(method)
           IN  \E k \in ind..(N - 1) : Contains(kws, T(tags, k)))
       => LET kws == IF pc = "petitioner" THEN KEYWORDS_3(method)
                     ELSE KEYWORDS_4(method)
              j == SetMin({k \in ind..(N - 1) : Contains(kws, T(tags, k))})
              v == details'[pc]
          IN  IF Equals(kws, T(tags, j))
              THEN /\ j + 1 < N
                   /\ v = Str(T(tags, j + 1))
                   /\ ind' = j + 2
              ELSE /\ v = Str(T(tags, j))
                   /\ ind' = j + 1]_vars

\* C20: in the single-party path no block is the source of two of the fields
\* court, judges, order date, case number, subject, petitioner, respondent:
\* two fields do not hold the text of one and the same block (a text that
\* only one block of the document has)
C20_OneClaimPerBlock ==
    (pc = "idle" /\ result = "True" /\ method \in Methods
       /\ details.petitioner.k # "list" /\ details.respondent.k # "list")
    => LET Fields == {"court", "judges", "order_date", "case_no", "subject",
                      "petitioner", "respondent"}
           Holds(f, v) == \/ details[f].k = "str" /\ details[f].v = v
                          \/ /\ details[f].k = "list"
                             /\ \E r \in DOMAIN details[f].v : details[f].v[r] = v
       IN  \A k \in DOMAIN tags :
              Cardinality({x \in DOMAIN tags : tags[x].text = tags[k].text}) = 1
              => Cardinality({f \in Fields : Holds(f, tags[k].text)}) <= 1

\* C21: the lookahead that finds out whether the subject comes before the
\* parties consumes nothing: ind, temp_ind_32 and every field of details are
\* as before it; only the flag bisaya_before_niweduck is set
C21_LookaheadKeeps ==
    [][(pc = "lookahead" /\ method \in {M2015, M2045})
       => (/\ ind' = ind /\ temp_ind_32' = temp_ind_32
           /\ details' = details)]_vars

\* C22: case numbers of a consolidated case (2062-2072): the list holds, in
\* document order, exactly the lines with a case-number code that come
\* strictly before the first line, from the top, that starts with a citation
\* marker or is equal to a holding keyword; that line and the lines after it
\* add nothing
C22_CaseNumbersBeforeStop ==
    (pc = "idle" /\ result = "True" /\ method = M2062 /\ multi)
    => LET stops == {k \in 0..(N - 1) :
                        \/ StartsWith(KEYWORDS_2(method), T(tags, k))
                        \/ Equals(KEYWORDS_7(method), T(tags, k))}
           stop == IF stops = {} THEN N ELSE SetMin(stops)
           S == {k \in 0..(stop - 1) : Contains(KEYWORDS_10(method), T(tags, k))}
           expected == [r \in 1..Cardinality(S) |->
                          T(tags, CHOOSE k \in S : Cardinality({x \in S : x <= k}) = r)]
       IN  details.case_no = List(expected)

\* C23: empty blocks are invisible: an extractor run on a document and on
\* the same document without its empty-text blocks ends the same way and
\* saves the same extracted fields
C23_EmptyBlocksInvisible ==
    (/\ pc = "idle" /\ work = <<>> /\ Len(selected) = 2
     /\ selected[1].method = selected[2].method
     /\ web[U2].tags = SelectSeq(web[U1].tags, LAMBDA b : b.text # <<>>))
    => /\ Exists(cases, U1) <=> Exists(cases, U2)
       /\ \A r1 \in cases : \A r2 \in cases :
             (r1.link = U1 /\ r2.link = U2)
             => \A f \in {"court", "judges", "order_date", "case_no", "subject",
                          "petitioner", "respondent", "prakaran", "thahar"} :
                   r1.data[f] = r2.data[f]

\* C24: list items behave as standalone blocks: the segmenter step on a list
\* item with text t leaves the section list, the pending text, the holding
\* and the holding flag as the step on a paragraph with text t would
C24_ListItemAsBlock ==
    [][(pc = "segment" /\ seg # <<>> /\ Head(seg).li)
       => LET st == SegUnit(method,
                            SegState(prakarans, prev, tahar, temp_flag_tahar),
                            [Head(seg) EXCEPT !.li = FALSE])
          IN  /\ prakarans' = st.prakarans
              /\ prev' = st.prev
              /\ tahar' = st.tahar
              /\ temp_flag_tahar' = st.temp_flag_tahar]_vars

\* C25: retrieval retry ceiling: return_soup makes at most max_retries
\* requests for one URL (none when the saved copy is used), stops at the
\* first request that succeeds, sleeps 2^attempt between two attempts and
\* not after the last one, and when all attempts fail the call returns
\* False without an exception and without a record
C25_RetryCeiling ==
    [][(pc = "soup" /\ method \in EraMethods)
       => LET k == fetches' - fetches
              cached == use_saved /\ generate_html_filename(url, sal) \in DOMAIN saved
          IN  /\ k <= max_retries
              /\ cached => (k = 0 /\ slept' = slept)
              /\ ~cached =>
                   /\ k = IF fails < max_retries THEN fails + 1 ELSE max_retries
                   /\ Len(slept') = Len(slept) + k - 1
                   /\ \A a \in 1..(k - 1) : slept'[Len(slept) + a] = 2^(a - 1)
                   /\ fails < max_retries => (tags' = web[url].tags /\ pc' # "idle")
                   /\ fails >= max_retries
                        => (/\ pc' = "idle" /\ result' = "False" /\ ~raised'
                            /\ cases' = cases /\ saved' = saved)]_vars

\* a call whose requests all failed has ended: max_retries requests, the
\* delays 1 and 2 between them, False returned without an exception
C25_Witness ==
    /\ pc = "idle" /\ Len(selected) = 1 /\ method \in EraMethods \ {M2073}
    /\ fetches = max_retries /\ slept = <<1, 2>>
    /\ result = "False" /\ ~raised /\ cases = {}

C28_Terminates == (pc # "idle") ~> (pc = "idle")

\* a 2073+ call has gone twice round the multi-party loop and through the
\* segmenter and has returned
C28_Witness ==
    /\ pc = "idle" /\ method = M2073 /\ result = "True"
    /\ Len(case_no) >= 2 /\ visited # <<>>

\* C29: numeral normalisation: for the sal of every call,
\* nepali_sal_to_english_sal gives a string of the same length in which each
\* of the ten Devanagari digits is the ASCII digit of the same value and
\* every other character is as it was; normalising the result again changes
\* nothing; an empty or missing sal gives the empty string; and the year in
\* the name of a saved HTML file holds no Devanagari digit
C29_NumeralNormalization ==
    /\ \A k \in DOMAIN selected :
          LET s == selected[k].sal
              e == nepali_sal_to_english_sal(s)
          IN  /\ Len(e) = Len(s)
              /\ \A i \in DOMAIN s :
                    /\ \A d \in 1..10 : s[i] = Devanagari[d] => e[i] = Ascii[d]
                    /\ ~IsDevanagari(s[i]) => e[i] = s[i]
              /\ nepali_sal_to_english_sal(e) = e
              /\ s = <<>> => e = <<>>
    /\ \A r \in cases :
          r.data.html_file_path # <<>>
          => \A i \in DOMAIN r.data.html_file_path[1] :
                ~IsDevanagari(r.data.html_file_path[1][i])

\* a call with the year 2062 in Devanagari digits has saved its record under
\* the ASCII year, and a call with a sal of a Devanagari digit, an ASCII digit
\* and a letter has been made
C29_Witness ==
    /\ Len(selected) = 2
    /\ selected[1].sal = Encode(2062, Devanagari)
    /\ selected[2].sal = <<"d2", "0", "x", "5">>
    /\ \E r \in cases : /\ r.data.html_file_path # <<>>
                        /\ r.data.html_file_path[1] = Encode(2062, Ascii)

\* C30: bench two-block lookahead (2015-2044 and 2062-2072): when the court
\* phase comes to a block that contains a bench keyword without being one
\* and a block follows it, then if the following block holds no judge
\* keyword the court is the two texts joined by a space and the cursor has
\* moved on by two blocks, and if it is a judge line the court is the first
\* text alone and the cursor is on the judge line
C30_BenchLookahead ==
    [][(/\ pc = "court" /\ method \in {M2015, M2062}
        /\ LET j == First(tags, ind, {t \in Texts(tags) : t # <<>> /\
                       (Contains(KEYWORDS_6(method), t) \/ Contains(KEYWORDS_8(method), t))})
           IN  /\ j + 1 < N
               /\ Contains(KEYWORDS_6(method), T(tags, j))
               /\ ~Equals(KEYWORDS_6(method), T(tags, j)))
       => LET j == First(tags, ind, {t \in Texts(tags) : t # <<>> /\
                       (Contains(KEYWORDS_6(method), t) \/ Contains(KEYWORDS_8(method), t))})
          IN  IF ~Contains(KEYWORDS_8(method), T(tags, j + 1))
              THEN /\ details'.court = Str(Join(T(tags, j), T(tags, j + 1)))
                   /\ ind' = j + 2
              ELSE /\ details'.court = Str(T(tags, j))
                   /\ ind' = j + 1]_vars

\* C31: the subject-before-party flag (2015-2044 and 2045-2050): after the
\* lookahead the flag is set exactly when the first block from the cursor on
\* that holds a subject, petitioner or respondent keyword holds a subject
\* keyword and no petitioner or respondent keyword; a block that holds both
\* leaves it unset, and so does a document without such a block
C31_SubjectBeforeParty ==
    [][(pc = "lookahead" /\ method \in {M2015, M2045})
       => LET hits == {k \in ind..(N - 1) :
                          \/ Contains(KEYWORDS_5(method), T(tags, k))
                          \/ Contains(KEYWORDS_3(method), T(tags, k))
                          \/ Contains(KEYWORDS_4(method), T(tags, k))}
          IN  bisaya' = (/\ hits # {}
                         /\ Contains(KEYWORDS_5(method), T(tags, SetMin(hits)))
                         /\ ~Contains(KEYWORDS_3(method), T(tags, SetMin(hits)))
                         /\ ~Contains(KEYWORDS_4(method), T(tags, SetMin(hits))))]_vars

\* the 2015-2044 lookahead has met a respondent line, whose keyword is also
\* a subject keyword, ahead of a subject line, and has left the flag unset
C31_Witness ==
    /\ phase = "lookahead" /\ method = M2015 /\ ~bisaya
    /\ N >= 2 /\ T(tags, N - 2) = <<"vipakshi", "x">>
    /\ T(tags, N - 1) = <<"vishaya", "x">>
    /\ before <= N - 2

\* C32: in one run of run_scraper a discovered URL is attempted at most
\* twice: once in the first pass and, only if that attempt failed, once more
\* in the retry pass, which begins when the first pass is over and does not
\* use the saved HTML; a URL that succeeded in the first pass is not
\* attempted again, and when the run has ended every URL that failed in the
\* first pass has had its retry
C32_AtMostTwoAttempts ==
    LET att == scraper.attempts
        Of(u, st) == {k \in DOMAIN att : att[k].url = u /\ att[k].stage = st}
    IN  scraper.stage # "none"
        => /\ \A u \in {U1, U2} :
                 /\ Cardinality(Of(u, "first")) <= 1
                 /\ Cardinality(Of(u, "retry")) <= 1
                 /\ Of(u, "retry") # {}
                      => /\ Of(u, "first") # {}
                         /\ \E k \in DOMAIN scraper.failed_links :
                               scraper.failed_links[k] = u
                 /\ scraper.stage = "done"
                      => \A k \in DOMAIN scraper.failed_links :
                            scraper.failed_links[k] = u => Of(u, "retry") # {}
           /\ \A k \in DOMAIN att :
                 /\ att[k].stage = "retry" => ~att[k].use_saved
                 /\ att[k].stage = "retry"
                      => \A j \in DOMAIN att : att[j].stage = "first" => j < k
                 /\ att[k].stage = "retry"
                      => Cardinality({j \in DOMAIN att : att[j].stage = "first"})
                            = Len(scraper.case_urls)
           /\ (pc # "idle" /\ scraper.stage = "retry") => ~use_saved

\* a run has ended in which the first URL succeeded at once and was attempted
\* once, and the second failed and was attempted once more without the cache
C32_Witness ==
    /\ scraper.stage = "done" /\ scraper.case_urls = <<U1, U2>>
    /\ Len(scraper.attempts) = 3
    /\ scraper.attempts[3] = [url |-> U2, stage |-> "retry", use_saved |-> FALSE]
    /\ scraper.use_saved /\ scraper.successful_count = 2

\* C33: cache before network: in every era extractor, while a call made with
\* use_saved looks up the URL and gets its soup and a saved copy of the
\* document exists, no request is made, and the call does not return False
C33_CacheBeforeNetwork ==
    [][(/\ pc \in {"precheck", "soup"} /\ method \in EraMethods
        /\ use_saved /\ generate_html_filename(url, sal) \in DOMAIN saved)
       => (/\ fetches' = fetches
           /\ pc' = "idle" => result' = "True")]_vars

\* C34: the saved-HTML cache never gives the content of another URL: what
\* get_all_pages has read for the search URL and for a pagination URL is the
\* page of that URL, and what an extractor reads for its URL is the document
\* of that URL
C34_CacheKeepsUrlsApart ==
    /\ scraper.stage # "none"
         => \A k \in DOMAIN scraper.reads :
               scraper.reads[k].soup = web[scraper.reads[k].url]
    /\ (pc \notin {"idle", "precheck", "soup"}) => tags = web[url].tags

\* C35: link discovery is complete and duplicate-free: when get_all_pages
\* has read the search page, case_urls holds, once each and in the order of
\* first occurrence, every href that comes right after an anchor whose href
\* holds "#", on the search page and, when the search page has
\* "javascript:void(0)" and a pagination link, on the pagination page too
C35_DiscoveryComplete ==
    (scraper.stage # "none" /\ scraper.reads # <<>>)
    => LET Found(links) ==
               LET at == {k \in 2..Len(links) :
                             /\ links[k - 1] # NoHref /\ HasHash(links[k - 1])
                             /\ links[k] # NoHref}
               IN  [r \in 1..Cardinality(at) |->
                       links[CHOOSE k \in at : Cardinality({x \in at : x <= k}) = r]]
           first == web[SearchUrl].anchors
           paged == /\ \E k \in DOMAIN first : first[k] = JsUrl
                    /\ \E k \in DOMAIN first : first[k] = MoreUrl
           all == Found(first) \o (IF paged THEN Found(web[MoreUrl].anchors) ELSE <<>>)
       IN  /\ \A k \in DOMAIN all : \E j \in DOMAIN scraper.case_urls :
                 scraper.case_urls[j] = all[k]
           /\ \A j \in DOMAIN scraper.case_urls :
                 /\ \E k \in DOMAIN all : all[k] = scraper.case_urls[j]
                 /\ \A i \in DOMAIN scraper.case_urls :
                       scraper.case_urls[i] = scraper.case_urls[j] => i = j
           /\ \A i \in DOMAIN scraper.case_urls : \A j \in DOMAIN scraper.case_urls :
                 i < j => \E a \in DOMAIN all :
                             /\ all[a] = scraper.case_urls[i]
                             /\ \A b \in 1..a : all[b] # scraper.case_urls[j]

\* C36: at the end of segmentation no text is lost: when a call has saved its
\* record, the text of every unit the segmenter visited is part of an entry
\* of the citations list or is an entry of the holding list, and a pending
\* text left over after the last citation is in the citations list
C36_NoTextLost ==
    (pc = "idle" /\ result = "True" /\ visited # <<>>
        /\ details.prakaran = List(prakarans))
    => LET Part(t, e) == \E a \in 0..(Len(e) - Len(t)) :
                            SubSeq(e, a + 1, a + Len(t)) = t
       IN  /\ \A k \in DOMAIN visited :
                 \/ \E j \in DOMAIN prakarans : Part(visited[k].text, prakarans[j])
                 \/ \E j \in DOMAIN tahar : tahar[j] = visited[k].text
           /\ prev # <<>> => \E j \in DOMAIN prakarans : prakarans[j] = prev

\* C37: the holding list is empty until a holding token has been visited,
\* and from then on it is the texts visited from the first holding token on,
\* paragraphs and list items in the order of the visit: its first entry is a
\* holding token
C37_HoldingIsSuffix ==
    LET tokens == {k \in DOMAIN visited : IsHoldingToken(visited[k].text)}
    IN  IF tokens = {} THEN tahar = <<>>
        ELSE LET f == SetMin(tokens)
             IN  /\ tahar = [r \in 1..(Len(visited) - f + 1) |-> visited[f + r - 1].text]
                 /\ IsHoldingToken(tahar[1])

\* a 2062-2072 call has saved a record whose holding starts at a holding
\* token that was not the first text visited and goes on to the last one
C37_Witness ==
    /\ pc = "idle" /\ result = "True" /\ method = M2062
    /\ Len(visited) >= 3 /\ ~IsHoldingToken(visited[1].text)
    /\ Len(tahar) >= 2 /\ IsHoldingToken(tahar[1])
    /\ tahar[Len(tahar)] = visited[Len(visited)].text
    /\ details.thahar = List(tahar)

\* C38: the 2073+ multi-party loop discards nothing: when a call has saved
\* its record and the loop had matched a petitioner or a respondent, the
\* case numbers, petitioners and respondents of the record are the lists the
\* loop collected, with or without a citation line later in the document
C38_GroupsKept ==
    (/\ pc = "idle" /\ result = "True" /\ method = M2073
     /\ phase = "multi" /\ (appellant # <<>> \/ opposition # <<>>))
    => /\ details.case_no = List(case_no)
       /\ details.petitioner = List(appellant)
       /\ details.respondent = List(opposition)
       /\ \E r \in cases :
             /\ r.link = url
             /\ r.data.case_no = Json(case_no)
             /\ r.data.petitioner = Json(appellant)
             /\ r.data.respondent = Json(opposition)

====
